---- MODULE Spec2Model ----
(***************************************************************************)
(* Model of src/main.cpp (vulkan14): the frame loop (loop, draw) running   *)
(* against an asynchronous device queue and presentation engine, and the   *)
(* initialization sequence of initVulkan.                                  *)
(*                                                                         *)
(* Spec      the frame loop after a successful initialization.             *)
(* SpecInit  initVulkan, phase by phase, over the values the driver can    *)
(*           report.                                                       *)
(***************************************************************************)
EXTENDS Integers, Sequences, FiniteSets, TLC

(* ------------------------------ bounds --------------------------------- *)

\* Number of images the swap chain holds (vkGetSwapchainImagesKHR).
NumImages == 3

\* Number of draw() calls after which the window reports should-close.
MaxDraws == 4

\* Width in bits of the unsigned integers of the initialization model
\* (uint32_t in the source, scaled down so that every value is enumerated).
UintBits == 2

\* Longest list of physical devices, of queue families and of surface
\* formats the driver reports.
MaxDevices == 2

MaxFamilies == 2

MaxFormats == 2

\* Bytes of the buffer's allocation that lie after the buffer.
AllocationSlack == 2

(* ------------------------- program constants --------------------------- *)

\* SwapChain::MAX_SWAPCHAIN_FRAMES
MAX_SWAPCHAIN_FRAMES == 2

Slots == 0 .. (MAX_SWAPCHAIN_FRAMES - 1)

Images == 0 .. (NumImages - 1)

(* ------------------------------ state ---------------------------------- *)

VARIABLES
    \* frame loop (loop, draw)
    pc,                        \* position of the driving thread
    shouldClose,               \* glfwWindowShouldClose
    frame,                     \* number of draw() calls started
    currentFrame,              \* swapchain.currentFrame
    imageIdx,                  \* draw()'s local imageIdx
    res,                       \* draw()'s local res
    waitFences,                \* slot -> signaled?
    presentSemaphores,         \* slot -> "unsignaled" | "pending" | "signaled"
    renderCompleteSemaphores,  \* image -> "unsignaled" | "signaled"
    commandBuffers,            \* slot -> the calls recorded into it
    graphicsQueue,             \* submissions not yet completed, oldest first
    presentQueue,              \* present requests not yet executed, oldest first
    imageOwner,                \* image -> "engine" | "app" | "queued"
    swapchainStatus,           \* "ok" | "outOfDate" (surface no longer matches)
    steps,                     \* the steps of the current draw(), in order
    completed,                 \* draw() numbers whose submission has completed
    lastRead,                  \* last image read by the presentation engine
    outOfDateReport,           \* the first draw() in which acquire or present
                               \* returned other than VK_SUCCESS, the call,
                               \* and the swap chain it was made on
    \* initialization (initVulkan)
    ipc,                       \* the phase initVulkan is about to run
    error,                     \* what() of the exception thrown, or "none"
    calls,                     \* the API calls initVulkan has made, in order
    appCtx,                    \* the fields of AppContext initVulkan sets
    formatCount,               \* initVulkan's local formatCount
    surfaceCapabilities,       \* initVulkan's local surfaceCapabilities
    numberSwapchainImages,     \* initVulkan's local numberSwapchainImages
    enumerated,                \* what the latest enumeration returned: the
                               \* local devices, queueFamilies, surfaceFormats
                               \* or presentModes
    swapchainCreateInfo,       \* initVulkan's local swapchainCreateInfo
    \* resources (initResouces)
    rpc,                       \* the statement initResouces is about to run
    gpuBuffer,                 \* trisCtx.gpuBuffer
    memory,                    \* the bytes of the buffer's allocation
    copied,                    \* bytes the memcpy under way has copied
    \* the process (main, initWindow)
    window,                    \* windowCtx.window: has glfwCreateWindow made it?
    process,                   \* "running" | "exited"
    exitCode,                  \* the status the process exited with
    cerr,                      \* what the process has written to std::cerr
    polls                      \* number of glfwPollEvents() calls made

loopVars == <<pc, shouldClose, frame, currentFrame, imageIdx, res, waitFences,
              presentSemaphores, renderCompleteSemaphores, commandBuffers,
              graphicsQueue, presentQueue, imageOwner, swapchainStatus, steps,
              completed, lastRead, outOfDateReport>>

initVars == <<ipc, error, calls, appCtx, formatCount, surfaceCapabilities,
              numberSwapchainImages, enumerated, swapchainCreateInfo>>

resVars == <<rpc, gpuBuffer, memory, copied>>

mainVars == <<window, process, exitCode, cerr, polls>>

vars == <<loopVars, initVars, resVars, mainVars>>

(* ------------------------ initialization (initVulkan) ------------------ *)

\* Unsigned integers of UintBits bits.
UintMod == 2 ^ UintBits

UintMax == UintMod - 1

Uint == 0 .. UintMax

\* An empty std::optional<uint32_t>.
nullopt == -1

VK_NULL_HANDLE == 0

\* The lists over S of at most n elements.
SeqsUpTo(S, n) == UNION {[1 .. k -> S] : k \in 0 .. n}

\* AppContext as main() constructs it (the member initializers).
NewAppContext ==
    [instance |-> FALSE, surface |-> FALSE, physicalDevice |-> VK_NULL_HANDLE,
     device |-> FALSE, allocator |-> FALSE,
     graphicsQueue |-> [idx |-> nullopt, queueHandle |-> FALSE],
     presentQueue |-> [idx |-> nullopt, queueHandle |-> FALSE],
     computeQueue |-> [idx |-> nullopt, queueHandle |-> FALSE],
     colorFormat |-> "UNDEFINED", colorSpace |-> "SRGB_NONLINEAR_KHR",
     extent |-> [width |-> 0, height |-> 0],
     presentMode |-> "FIFO",
     swapchainHandle |-> VK_NULL_HANDLE, oldSwapchainHandle |-> VK_NULL_HANDLE,
     images |-> 0, imageViews |-> 0,
     waitFences |-> 0, presentSemaphores |-> 0, renderCompleteSemaphores |-> 0,
     commandPool |-> FALSE, commandBuffers |-> 0,
     window |-> [width |-> 1920, height |-> 1080]]

\* The values the driver can report.
DeviceTypes == {"DISCRETE_GPU", "INTEGRATED_GPU"}

QueueFamilyProperties == [graphics : BOOLEAN, compute : BOOLEAN, present : BOOLEAN]

Formats == {"B8G8R8A8_UNORM", "R8G8B8A8_UNORM", "A8B8G8R8_UNORM_PACK32",
            "R5G6B5_UNORM_PACK16"}

SurfaceFormats == [format : Formats, colorSpace : {"SRGB_NONLINEAR_KHR"}]

\* FIFO, which every surface supports, and MAILBOX, the one initVulkan
\* looks for.
PresentModes == {"MAILBOX", "FIFO"}

\* currentExtent: the sentinel (uint32_t(-1) in both fields) or a size.
CurrentExtents == {[width |-> UintMax, height |-> UintMax],
                   [width |-> 1, height |-> 2]}

\* minImageCount >= 1; maxImageCount is 0 (no limit) or >= minImageCount.
SurfaceCapabilities ==
    {c \in [currentExtent : CurrentExtents, minImageCount : Uint, maxImageCount : Uint] :
        /\ c.minImageCount >= 1
        /\ c.maxImageCount = 0 \/ c.maxImageCount >= c.minImageCount}

\* surfaceCapabilities before the query fills it.
NoCapabilities ==
    [currentExtent |-> [width |-> 0, height |-> 0],
     minImageCount |-> 0, maxImageCount |-> 0]

\* RT_THROW(msg): the exception leaves initVulkan.
Throw(msg) ==
    /\ error' = msg
    /\ ipc' = "failed"

\* main's try block around the call under way: an exception it throws
\* reaches the handler, catch (std::exception &e) { std::cerr << e.what();
\* return -3; }
MainTry ==
    IF error' # "none"
    THEN /\ cerr' = error'
         /\ exitCode' = -3
         /\ process' = "exited"
         /\ UNCHANGED <<window, polls>>
    ELSE UNCHANGED mainVars

\* The calls made so far contain the call named name.
Called(name) == \E k \in 1 .. Len(calls) : calls[k] = name

\* VK_CHECK(vkCreateInstance(...), "Failed to create instance"); main()
\* calls initVulkan once initWindow has returned.
InitCreateInstance ==
    /\ ipc = "instance"
    /\ window
    /\ process = "running"
    /\ calls' = Append(calls, "vkCreateInstance")
    /\ \E ok \in BOOLEAN :
          IF ok
          THEN /\ appCtx' = [appCtx EXCEPT !.instance = TRUE]
               /\ ipc' = "surface"
               /\ UNCHANGED error
          ELSE /\ Throw("Failed to create instance")
               /\ UNCHANGED appCtx
    /\ UNCHANGED <<formatCount, surfaceCapabilities, numberSwapchainImages, enumerated, swapchainCreateInfo>>
    /\ UNCHANGED loopVars
    /\ UNCHANGED resVars
    /\ MainTry

\* VK_CHECK(glfwCreateWindowSurface(...), "Failed to create Surface").
InitCreateSurface ==
    /\ ipc = "surface"
    /\ calls' = Append(calls, "glfwCreateWindowSurface")
    /\ \E ok \in BOOLEAN :
          IF ok
          THEN /\ appCtx' = [appCtx EXCEPT !.surface = TRUE]
               /\ ipc' = "physicalDevice"
               /\ UNCHANGED error
          ELSE /\ Throw("Failed to create Surface")
               /\ UNCHANGED appCtx
    /\ UNCHANGED <<formatCount, surfaceCapabilities, numberSwapchainImages, enumerated, swapchainCreateInfo>>
    /\ UNCHANGED loopVars
    /\ UNCHANGED resVars
    /\ MainTry

\* Mutant of SelectDiscrete: the test of the device type is missing, the
\* first device is taken whatever its type.
SelectAnyDevice(devices, k) ==
    IF k > Len(devices) THEN VK_NULL_HANDLE ELSE k

\* The first device of the list, from position k on, whose type is
\* DISCRETE_GPU (a device's handle is its position), or VK_NULL_HANDLE.
RECURSIVE SelectDiscrete(_, _)
SelectDiscrete(devices, k) ==
    IF k > Len(devices) THEN VK_NULL_HANDLE
    ELSE IF devices[k] = "DISCRETE_GPU" THEN k
    ELSE SelectDiscrete(devices, k + 1)

\* vkEnumeratePhysicalDevices and the selection loop.
InitSelectPhysicalDevice ==
    /\ ipc = "physicalDevice"
    /\ calls' = Append(calls, "vkEnumeratePhysicalDevices")
    /\ \E devices \in SeqsUpTo(DeviceTypes, MaxDevices) :
          /\ enumerated' = devices
          /\ IF Len(devices) = 0
             THEN /\ Throw("Failed to find Vulkan supported GPU")
                  /\ UNCHANGED appCtx
             ELSE /\ appCtx' = [appCtx EXCEPT !.physicalDevice = SelectDiscrete(devices, 1)]
                  /\ IF SelectDiscrete(devices, 1) = VK_NULL_HANDLE
                     THEN Throw("Failed to select Vulkan supported GPU")
                     ELSE ipc' = "queueFamilies" /\ UNCHANGED error
    /\ UNCHANGED <<formatCount, surfaceCapabilities, numberSwapchainImages, swapchainCreateInfo>>
    /\ UNCHANGED loopVars
    /\ UNCHANGED resVars
    /\ MainTry

\* The queue family loop from position k (index i = k - 1) on: q holds the
\* three optional indices; the loop breaks once graphics and present are set.
RECURSIVE ResolveQueueFamilies(_, _, _)
ResolveQueueFamilies(queueFamilies, k, q) ==
    IF k > Len(queueFamilies) THEN q
    ELSE LET queueFam == queueFamilies[k]
             i  == k - 1
             q1 == [graphics |-> IF queueFam.graphics THEN i ELSE q.graphics,
                    compute  |-> IF queueFam.compute THEN i ELSE q.compute,
                    present  |-> IF queueFam.present THEN i ELSE q.present]
         IN  IF q1.present # nullopt /\ q1.graphics # nullopt
             THEN q1
             ELSE ResolveQueueFamilies(queueFamilies, k + 1, q1)

\* Mutant of InitResolveQueues: the indices are read with value_or(0), an
\* empty optional does not throw.
InitResolveQueuesValueOr ==
    /\ ipc = "queueFamilies"
    /\ calls' = Append(calls, "vkGetPhysicalDeviceQueueFamilyProperties")
    /\ \E queueFamilies \in SeqsUpTo(QueueFamilyProperties, MaxFamilies) :
          LET q == ResolveQueueFamilies(queueFamilies, 1,
                      [graphics |-> appCtx.graphicsQueue.idx,
                       compute |-> appCtx.computeQueue.idx,
                       present |-> appCtx.presentQueue.idx])
          IN  /\ enumerated' = queueFamilies
              /\ appCtx' = [appCtx EXCEPT !.graphicsQueue.idx = q.graphics,
                                          !.computeQueue.idx = q.compute,
                                          !.presentQueue.idx = q.present]
              /\ ipc' = "device"
              /\ UNCHANGED error
    /\ UNCHANGED <<formatCount, surfaceCapabilities, numberSwapchainImages, swapchainCreateInfo>>
    /\ UNCHANGED loopVars
    /\ UNCHANGED resVars
    /\ MainTry

\* vkGetPhysicalDeviceQueueFamilyProperties, the loop, and the set
\* uniqueQueueFamilies, whose idx.value() throws on an empty optional.
InitResolveQueues ==
    /\ ipc = "queueFamilies"
    /\ calls' = Append(calls, "vkGetPhysicalDeviceQueueFamilyProperties")
    /\ \E queueFamilies \in SeqsUpTo(QueueFamilyProperties, MaxFamilies) :
          LET q == ResolveQueueFamilies(queueFamilies, 1,
                      [graphics |-> appCtx.graphicsQueue.idx,
                       compute |-> appCtx.computeQueue.idx,
                       present |-> appCtx.presentQueue.idx])
          IN  /\ enumerated' = queueFamilies
              /\ appCtx' = [appCtx EXCEPT !.graphicsQueue.idx = q.graphics,
                                          !.computeQueue.idx = q.compute,
                                          !.presentQueue.idx = q.present]
              /\ IF q.graphics = nullopt \/ q.present = nullopt
                 THEN Throw("bad optional access")
                 ELSE ipc' = "device" /\ UNCHANGED error
    /\ UNCHANGED <<formatCount, surfaceCapabilities, numberSwapchainImages, swapchainCreateInfo>>
    /\ UNCHANGED loopVars
    /\ UNCHANGED resVars
    /\ MainTry

\* VK_CHECK(vkCreateDevice(...), "Failed to create logical device").
InitCreateDevice ==
    /\ ipc = "device"
    /\ calls' = Append(calls, "vkCreateDevice")
    /\ \E ok \in BOOLEAN :
          IF ok
          THEN /\ appCtx' = [appCtx EXCEPT !.device = TRUE]
               /\ ipc' = "allocator"
               /\ UNCHANGED error
          ELSE /\ Throw("Failed to create logical device")
               /\ UNCHANGED appCtx
    /\ UNCHANGED <<formatCount, surfaceCapabilities, numberSwapchainImages, enumerated, swapchainCreateInfo>>
    /\ UNCHANGED loopVars
    /\ UNCHANGED resVars
    /\ MainTry

\* VK_CHECK(vmaCreateAllocator(...), "Failed to create VMA allocator").
InitCreateAllocator ==
    /\ ipc = "allocator"
    /\ calls' = Append(calls, "vmaCreateAllocator")
    /\ \E ok \in BOOLEAN :
          IF ok
          THEN /\ appCtx' = [appCtx EXCEPT !.allocator = TRUE]
               /\ ipc' = "queues"
               /\ UNCHANGED error
          ELSE /\ Throw("Failed to create VMA allocator")
               /\ UNCHANGED appCtx
    /\ UNCHANGED <<formatCount, surfaceCapabilities, numberSwapchainImages, enumerated, swapchainCreateInfo>>
    /\ UNCHANGED loopVars
    /\ UNCHANGED resVars
    /\ MainTry

\* The three vkGetDeviceQueue calls; computeQueue.idx.value() throws when no
\* compute family was resolved, after the first two handles are fetched.
InitGetQueues ==
    /\ ipc = "queues"
    /\ calls' = Append(calls, "vkGetDeviceQueue")
    /\ IF appCtx.computeQueue.idx = nullopt
       THEN /\ appCtx' = [appCtx EXCEPT !.graphicsQueue.queueHandle = TRUE,
                                        !.presentQueue.queueHandle = TRUE]
            /\ Throw("bad optional access")
       ELSE /\ appCtx' = [appCtx EXCEPT !.graphicsQueue.queueHandle = TRUE,
                                        !.presentQueue.queueHandle = TRUE,
                                        !.computeQueue.queueHandle = TRUE]
            /\ ipc' = "formats"
            /\ UNCHANGED error
    /\ UNCHANGED <<formatCount, surfaceCapabilities, numberSwapchainImages, enumerated, swapchainCreateInfo>>
    /\ UNCHANGED loopVars
    /\ UNCHANGED resVars
    /\ MainTry

\* The vector preferredFormats.
preferredFormats == <<"B8G8R8A8_UNORM", "R8G8B8A8_UNORM", "A8B8G8R8_UNORM_PACK32">>

\* std::find(preferredFormats.begin(), preferredFormats.end(), format) !=
\* preferredFormats.end().
IsPreferred(format) ==
    \E r \in 1 .. Len(preferredFormats) : preferredFormats[r] = format

\* Mutant of SelectFormat: the loop has no break, the last preferred format
\* of the list is the one kept.
RECURSIVE SelectFormatNoBreak(_, _)
SelectFormatNoBreak(surfaceFormats, k) ==
    IF k > Len(surfaceFormats) THEN surfaceFormats[1]
    ELSE LET rest == SelectFormatNoBreak(surfaceFormats, k + 1)
         IN  IF IsPreferred(surfaceFormats[k].format)
                /\ \A j \in (k + 1) .. Len(surfaceFormats) :
                       ~IsPreferred(surfaceFormats[j].format)
             THEN surfaceFormats[k]
             ELSE rest

\* selectedFormat: the first format of the list, from position k on, that is
\* a preferred one; the first of the list when there is none.
RECURSIVE SelectFormat(_, _)
SelectFormat(surfaceFormats, k) ==
    IF k > Len(surfaceFormats) THEN surfaceFormats[1]
    ELSE IF IsPreferred(surfaceFormats[k].format) THEN surfaceFormats[k]
    ELSE SelectFormat(surfaceFormats, k + 1)

\* Mutant of InitSurfaceFormats: the formatCount == 0 test is missing, an
\* empty list leaves the format fields alone.
InitSurfaceFormatsUnchecked ==
    /\ ipc = "formats"
    /\ calls' = Append(calls, "vkGetPhysicalDeviceSurfaceFormatsKHR")
    /\ \E surfaceFormats \in SeqsUpTo(SurfaceFormats, MaxFormats) :
          /\ formatCount' = Len(surfaceFormats)
          /\ enumerated' = surfaceFormats
          /\ appCtx' = IF Len(surfaceFormats) = 0 THEN appCtx
                       ELSE [appCtx EXCEPT
                               !.colorFormat = SelectFormat(surfaceFormats, 1).format,
                               !.colorSpace = SelectFormat(surfaceFormats, 1).colorSpace]
          /\ ipc' = "extent"
          /\ UNCHANGED error
    /\ UNCHANGED <<surfaceCapabilities, numberSwapchainImages, swapchainCreateInfo>>
    /\ UNCHANGED loopVars
    /\ UNCHANGED resVars
    /\ MainTry

\* vkGetPhysicalDeviceSurfaceFormatsKHR, the formatCount == 0 test and the
\* selection of the format.
InitSurfaceFormats ==
    /\ ipc = "formats"
    /\ calls' = Append(calls, "vkGetPhysicalDeviceSurfaceFormatsKHR")
    /\ \E surfaceFormats \in SeqsUpTo(SurfaceFormats, MaxFormats) :
          /\ formatCount' = Len(surfaceFormats)
          /\ enumerated' = surfaceFormats
          /\ IF Len(surfaceFormats) = 0
             THEN /\ Throw("Not found ANY surface color format!!!!")
                  /\ UNCHANGED appCtx
             ELSE /\ appCtx' = [appCtx EXCEPT
                                  !.colorFormat = SelectFormat(surfaceFormats, 1).format,
                                  !.colorSpace = SelectFormat(surfaceFormats, 1).colorSpace]
                  /\ ipc' = "extent"
                  /\ UNCHANGED error
    /\ UNCHANGED <<surfaceCapabilities, numberSwapchainImages, swapchainCreateInfo>>
    /\ UNCHANGED loopVars
    /\ UNCHANGED resVars
    /\ MainTry

\* Mutant of InitExtent: the extent taken from the surface is not written
\* back to the window size.
InitExtentNoFeedback ==
    /\ ipc = "extent"
    /\ calls' = Append(calls, "vkGetPhysicalDeviceSurfaceCapabilitiesKHR")
    /\ \E caps \in SurfaceCapabilities :
          /\ surfaceCapabilities' = caps
          /\ appCtx' =
                IF caps.currentExtent.width = UintMax
                THEN [appCtx EXCEPT
                        !.oldSwapchainHandle = appCtx.swapchainHandle,
                        !.extent = [width |-> appCtx.window.width,
                                    height |-> appCtx.window.height]]
                ELSE [appCtx EXCEPT
                        !.oldSwapchainHandle = appCtx.swapchainHandle,
                        !.extent = caps.currentExtent]
    /\ ipc' = "presentModes"
    /\ UNCHANGED <<error, formatCount, numberSwapchainImages, enumerated, swapchainCreateInfo>>
    /\ UNCHANGED loopVars
    /\ UNCHANGED resVars
    /\ MainTry

\* oldSwapchainHandle = swapchainHandle, the capabilities query and the
\* derivation of the extent.
InitExtent ==
    /\ ipc = "extent"
    /\ calls' = Append(calls, "vkGetPhysicalDeviceSurfaceCapabilitiesKHR")
    /\ \E caps \in SurfaceCapabilities :
          /\ surfaceCapabilities' = caps
          /\ appCtx' =
                IF caps.currentExtent.width = UintMax
                THEN [appCtx EXCEPT
                        !.oldSwapchainHandle = appCtx.swapchainHandle,
                        !.extent = [width |-> appCtx.window.width,
                                    height |-> appCtx.window.height]]
                ELSE [appCtx EXCEPT
                        !.oldSwapchainHandle = appCtx.swapchainHandle,
                        !.extent = caps.currentExtent,
                        !.window = [width |-> caps.currentExtent.width,
                                    height |-> caps.currentExtent.height]]
    /\ ipc' = "presentModes"
    /\ UNCHANGED <<error, formatCount, numberSwapchainImages, enumerated, swapchainCreateInfo>>
    /\ UNCHANGED loopVars
    /\ UNCHANGED resVars
    /\ MainTry

\* vkGetPhysicalDeviceSurfacePresentModesKHR and *std::find_if(.. MAILBOX):
\* without MAILBOX in the list the iterator is end(), and what its
\* dereference reads is not defined.
InitPresentModes ==
    /\ ipc = "presentModes"
    /\ calls' = Append(calls, "vkGetPhysicalDeviceSurfacePresentModesKHR")
    /\ \E presentModes \in SUBSET PresentModes :
          /\ enumerated' = presentModes
          /\ IF presentModes = {}
             THEN /\ Throw("Not found ANY present mode")
                  /\ UNCHANGED appCtx
             ELSE /\ \E mode \in IF "MAILBOX" \in presentModes
                                 THEN {"MAILBOX"}
                                 ELSE PresentModes \cup {"INDETERMINATE"} :
                        appCtx' = [appCtx EXCEPT !.presentMode = mode]
                  /\ ipc' = "imageCount"
                  /\ UNCHANGED error
    /\ UNCHANGED <<formatCount, surfaceCapabilities, numberSwapchainImages, swapchainCreateInfo>>
    /\ UNCHANGED loopVars
    /\ UNCHANGED resVars
    /\ MainTry

\* numberSwapchainImages = minImageCount + 1u, clamped down to maxImageCount
\* when that is not 0.
ImageCount(minImageCount, maxImageCount) ==
    LET n == (minImageCount + 1) % UintMod
    IN  IF maxImageCount > 0 /\ n > maxImageCount THEN maxImageCount ELSE n

InitImageCount ==
    /\ ipc = "imageCount"
    /\ numberSwapchainImages' = ImageCount(surfaceCapabilities.minImageCount,
                                           surfaceCapabilities.maxImageCount)
    /\ ipc' = "swapchain"
    /\ UNCHANGED <<error, calls, appCtx, formatCount, surfaceCapabilities, enumerated, swapchainCreateInfo>>
    /\ UNCHANGED loopVars
    /\ UNCHANGED resVars
    /\ MainTry

\* swapchainCreateInfo before initVulkan fills it.
NoCreateInfo ==
    [minImageCount |-> 0, imageFormat |-> "UNDEFINED",
     imageColorSpace |-> "SRGB_NONLINEAR_KHR",
     imageExtent |-> [width |-> 0, height |-> 0],
     presentMode |-> "FIFO", oldSwapchain |-> VK_NULL_HANDLE]

\* The VkSwapchainCreateInfoKHR initVulkan builds.
SwapchainCreateInfo ==
    [minImageCount |-> numberSwapchainImages,
     imageFormat |-> appCtx.colorFormat,
     imageColorSpace |-> appCtx.colorSpace,
     imageExtent |-> appCtx.extent,
     presentMode |-> appCtx.presentMode,
     oldSwapchain |-> appCtx.oldSwapchainHandle]

\* Mutant of InitCreateSwapchain: the handle the call returns is not stored
\* in swapchainHandle.
InitCreateSwapchainHandleLost ==
    /\ ipc = "swapchain"
    /\ calls' = Append(calls, "vkCreateSwapchainKHR")
    /\ swapchainCreateInfo' = SwapchainCreateInfo
    /\ \E ok \in BOOLEAN :
          IF ok
          THEN /\ ipc' = "images"
               /\ UNCHANGED <<error, appCtx>>
          ELSE /\ Throw("Failed to create swapchain")
               /\ UNCHANGED appCtx
    /\ UNCHANGED <<formatCount, surfaceCapabilities, numberSwapchainImages, enumerated>>
    /\ UNCHANGED loopVars
    /\ UNCHANGED resVars
    /\ MainTry

\* VK_CHECK(vkCreateSwapchainKHR(...), "Failed to create swapchain"): the new
\* handle is written on success only.
InitCreateSwapchain ==
    /\ ipc = "swapchain"
    /\ calls' = Append(calls, "vkCreateSwapchainKHR")
    /\ swapchainCreateInfo' = SwapchainCreateInfo
    /\ \E ok \in BOOLEAN :
          IF ok
          THEN /\ appCtx' = [appCtx EXCEPT !.swapchainHandle = appCtx.oldSwapchainHandle + 1]
               /\ ipc' = "images"
               /\ UNCHANGED error
          ELSE /\ Throw("Failed to create swapchain")
               /\ UNCHANGED appCtx
    /\ UNCHANGED <<formatCount, surfaceCapabilities, numberSwapchainImages, enumerated>>
    /\ UNCHANGED loopVars
    /\ UNCHANGED resVars
    /\ MainTry

\* vkGetSwapchainImagesKHR (the chain holds at least the images asked for,
\* and at least one), the two resize calls and one vkCreateImageView per
\* image.
InitSwapchainImages ==
    /\ ipc = "images"
    /\ calls' = Append(calls, "vkGetSwapchainImagesKHR")
    /\ \E count \in {c \in 1 .. UintMax :
                        c >= numberSwapchainImages /\ c <= numberSwapchainImages + 1} :
          /\ numberSwapchainImages' = count
          /\ \E ok \in BOOLEAN :
                IF ok
                THEN /\ appCtx' = [appCtx EXCEPT !.images = count, !.imageViews = count]
                     /\ ipc' = "sync"
                     /\ UNCHANGED error
                ELSE /\ appCtx' = [appCtx EXCEPT !.images = count, !.imageViews = count]
                     /\ Throw("Failed to create image view - swapchain")
    /\ UNCHANGED <<formatCount, surfaceCapabilities, enumerated, swapchainCreateInfo>>
    /\ UNCHANGED loopVars
    /\ UNCHANGED resVars
    /\ MainTry

\* Mutant of InitSyncObjects: renderCompleteSemaphores is sized to the frame
\* slots, as the other two collections, instead of the images.
InitSyncObjectsPerSlot ==
    /\ ipc = "sync"
    /\ calls' = Append(calls, "vkCreateFence")
    /\ appCtx' = [appCtx EXCEPT !.waitFences = MAX_SWAPCHAIN_FRAMES,
                                !.presentSemaphores = MAX_SWAPCHAIN_FRAMES,
                                !.renderCompleteSemaphores = MAX_SWAPCHAIN_FRAMES]
    /\ \/ ipc' = "commands" /\ UNCHANGED error
       \/ \E msg \in {"Failed to create wait fence",
                      "Failed to create present semaphore",
                      "Failed to create render semaphore"} : Throw(msg)
    /\ UNCHANGED <<formatCount, surfaceCapabilities, numberSwapchainImages, enumerated, swapchainCreateInfo>>
    /\ UNCHANGED loopVars
    /\ UNCHANGED resVars
    /\ MainTry

\* The resize of the three collections of sync objects and their creation.
InitSyncObjects ==
    /\ ipc = "sync"
    /\ calls' = Append(calls, "vkCreateFence")
    /\ appCtx' = [appCtx EXCEPT !.waitFences = MAX_SWAPCHAIN_FRAMES,
                                !.presentSemaphores = MAX_SWAPCHAIN_FRAMES,
                                !.renderCompleteSemaphores = appCtx.images]
    /\ \/ ipc' = "commands" /\ UNCHANGED error
       \/ \E msg \in {"Failed to create wait fence",
                      "Failed to create present semaphore",
                      "Failed to create render semaphore"} : Throw(msg)
    /\ UNCHANGED <<formatCount, surfaceCapabilities, numberSwapchainImages, enumerated, swapchainCreateInfo>>
    /\ UNCHANGED loopVars
    /\ UNCHANGED resVars
    /\ MainTry

\* vkCreateCommandPool and vkAllocateCommandBuffers.
InitCommandBuffers ==
    /\ ipc = "commands"
    /\ calls' = Append(calls, "vkCreateCommandPool")
    /\ \/ /\ appCtx' = [appCtx EXCEPT !.commandPool = TRUE,
                                      !.commandBuffers = MAX_SWAPCHAIN_FRAMES]
          /\ ipc' = "done"
          /\ UNCHANGED error
       \/ /\ Throw("Failed to create command pool")
          /\ UNCHANGED appCtx
       \/ /\ appCtx' = [appCtx EXCEPT !.commandPool = TRUE]
          /\ Throw("Failed to allocate command buffers")
    /\ UNCHANGED <<formatCount, surfaceCapabilities, numberSwapchainImages, enumerated, swapchainCreateInfo>>
    /\ UNCHANGED loopVars
    /\ UNCHANGED resVars
    /\ MainTry

(* ------------------------ resources (initResouces) --------------------- *)

\* sizeof(Vertex): two glm::vec3 of three floats each.
SizeofVertex == 24

\* sizeof(uint32_t) and sizeof(float).
SizeofUint32 == 4

\* The content of a byte of the allocation that nothing has written.
Stale == -1

\* The bytes of a float, least significant first (IEEE 754 single
\* precision), for the values initResouces uses.
FloatBytes(f) ==
    CASE f = "0.0f"  -> <<0, 0, 0, 0>>
      [] f = "1.0f"  -> <<0, 0, 128, 63>>
      [] f = "0.5f"  -> <<0, 0, 0, 63>>
      [] f = "-0.5f" -> <<0, 0, 0, 191>>

\* The bytes of a uint32_t, least significant first.
Uint32Bytes(n) ==
    <<n % 256, (n \div 256) % 256, (n \div 65536) % 256, (n \div 16777216) % 256>>

\* The concatenation of a list of lists.
RECURSIVE Concat(_)
Concat(lists) ==
    IF lists = <<>> THEN <<>> ELSE Head(lists) \o Concat(Tail(lists))

\* The array trisGeom and the array indices.
trisGeom ==
    << [position |-> <<"-0.5f", "-0.5f", "1.0f">>, color |-> <<"0.0f", "0.0f", "1.0f">>],
       [position |-> <<"0.5f", "-0.5f", "1.0f">>, color |-> <<"0.0f", "1.0f", "0.0f">>],
       [position |-> <<"0.0f", "0.5f", "1.0f">>, color |-> <<"1.0f", "0.0f", "0.0f">>] >>

indices == <<0, 1, 2>>

\* The object representation of a Vertex: position at offset 0, color after.
VertexBytes(v) ==
    Concat([k \in 1 .. 3 |-> FloatBytes(v.position[k])])
    \o Concat([k \in 1 .. 3 |-> FloatBytes(v.color[k])])

\* What trisGeom.data() and indices point to.
TrisGeomBytes == Concat([k \in 1 .. Len(trisGeom) |-> VertexBytes(trisGeom[k])])

IndicesBytes == Concat([k \in 1 .. Len(indices) |-> Uint32Bytes(indices[k])])

vbuffSize == SizeofVertex * Len(trisGeom)

ibuffSize == SizeofUint32 * 3

\* GPUBuffer as AppContext is constructed.
NewGPUBuffer == [size |-> 0, buffer |-> FALSE, bufferAllocation |-> FALSE]

\* A VK_CHECK of initResouces fails: the exception leaves initResouces.
ResThrow(msg) ==
    /\ error' = msg
    /\ rpc' = "failed"
    /\ UNCHANGED <<ipc, calls, appCtx, formatCount, surfaceCapabilities,
                   numberSwapchainImages, enumerated, swapchainCreateInfo>>

\* gpuBuffer.size = vbuffSize + ibuffSize and vmaCreateBuffer: the allocation
\* holds the bytes of the buffer and AllocationSlack more.
ResCreateBuffer ==
    /\ ipc = "done"
    /\ rpc = "createBuffer"
    /\ \E ok \in BOOLEAN :
          IF ok
          THEN /\ gpuBuffer' = [size |-> vbuffSize + ibuffSize,
                                buffer |-> TRUE, bufferAllocation |-> TRUE]
               /\ memory' = [k \in 1 .. (vbuffSize + ibuffSize + AllocationSlack) |-> Stale]
               /\ rpc' = "map"
               /\ UNCHANGED initVars
          ELSE /\ gpuBuffer' = [gpuBuffer EXCEPT !.size = vbuffSize + ibuffSize]
               /\ ResThrow("Failed to create tris buffer")
               /\ UNCHANGED memory
    /\ UNCHANGED copied
    /\ UNCHANGED loopVars
    /\ MainTry

\* vmaMapMemory(allocator, bufferAllocation, &pBuffMap).
ResMapMemory ==
    /\ rpc = "map"
    /\ \E ok \in BOOLEAN :
          IF ok
          THEN /\ rpc' = "copyVertices"
               /\ UNCHANGED initVars
          ELSE ResThrow("Failed to map buffer memory")
    /\ UNCHANGED <<gpuBuffer, memory, copied>>
    /\ UNCHANGED loopVars
    /\ MainTry

\* memcpy(dest, src, count) at the offset offset of the mapped memory, one
\* byte at a time; then the statement next.
Memcpy(offset, src, count, next) ==
    IF copied < count
    THEN /\ memory' = [memory EXCEPT ![offset + copied + 1] = src[copied + 1]]
         /\ copied' = copied + 1
         /\ UNCHANGED rpc
    ELSE /\ rpc' = next
         /\ copied' = 0
         /\ UNCHANGED memory

\* memcpy(pBuffMap, trisGeom.data(), vbuffSize).
ResCopyVertices ==
    /\ rpc = "copyVertices"
    /\ Memcpy(0, TrisGeomBytes, vbuffSize, "copyIndices")
    /\ UNCHANGED gpuBuffer
    /\ UNCHANGED initVars
    /\ UNCHANGED loopVars
    /\ MainTry

\* The indices copied to the start of the mapped memory.
ResCopyIndicesAtStart ==
    /\ rpc = "copyIndices"
    /\ Memcpy(0, IndicesBytes, ibuffSize, "unmap")
    /\ UNCHANGED gpuBuffer
    /\ UNCHANGED initVars
    /\ UNCHANGED loopVars
    /\ MainTry

\* memcpy(((char*)pBuffMap) + vbuffSize, indices, ibuffSize).
ResCopyIndices ==
    /\ rpc = "copyIndices"
    /\ Memcpy(vbuffSize, IndicesBytes, ibuffSize, "unmap")
    /\ UNCHANGED gpuBuffer
    /\ UNCHANGED initVars
    /\ UNCHANGED loopVars
    /\ MainTry

\* vmaUnmapMemory(allocator, bufferAllocation).
ResUnmapMemory ==
    /\ rpc = "unmap"
    /\ rpc' = "objects"
    /\ UNCHANGED <<gpuBuffer, memory, copied>>
    /\ UNCHANGED initVars
    /\ UNCHANGED loopVars
    /\ MainTry

\* The descriptor pool, set layout and sets, the pipeline layout and the
\* pipeline cache: each creation is a VK_CHECK.
ResCreateObjects ==
    /\ rpc = "objects"
    /\ \/ /\ rpc' = "done"
          /\ UNCHANGED initVars
       \/ \E msg \in {"Failed to create descriptorPool",
                      "Failed to create descriptorSetLayout",
                      "Failed to allocate descriptors",
                      "Failed to create pipeline layout",
                      "Failed to create pipeline cache object"} : ResThrow(msg)
    /\ UNCHANGED <<gpuBuffer, memory, copied>>
    /\ UNCHANGED loopVars
    /\ MainTry

(* ------------------------- the process (main) -------------------------- *)

\* The process has made its window and is running.
WindowCreated ==
    /\ window = TRUE
    /\ process = "running"
    /\ exitCode = 0
    /\ cerr = ""
    /\ polls = 0

\* initWindow: glfwCreateWindow returns the window, or nullptr, and then
\* glfwTerminate(); exit(-1).
InitWindow ==
    /\ process = "running"
    /\ ~window
    /\ \E created \in BOOLEAN :
          IF created
          THEN /\ window' = TRUE
               /\ UNCHANGED <<process, exitCode>>
          ELSE /\ process' = "exited"
               /\ exitCode' = -1
               /\ UNCHANGED window
    /\ UNCHANGED <<cerr, polls>>
    /\ UNCHANGED loopVars
    /\ UNCHANGED initVars
    /\ UNCHANGED resVars

\* loop() has returned: return 0.
MainReturn ==
    /\ process = "running"
    /\ pc = "done"
    /\ exitCode' = 0
    /\ process' = "exited"
    /\ UNCHANGED <<window, cerr, polls>>
    /\ UNCHANGED loopVars
    /\ UNCHANGED initVars
    /\ UNCHANGED resVars

(* --------------------- command recording (draw) ------------------------ *)

\* One vkCmdPipelineBarrier call with a single image memory barrier.
ImageBarrier(img, srcAccess, dstAccess, oldLayout, newLayout, srcStage, dstStage) ==
    [call |-> "vkCmdPipelineBarrier", image |-> img,
     srcAccessMask |-> srcAccess, dstAccessMask |-> dstAccess,
     oldLayout |-> oldLayout, newLayout |-> newLayout,
     srcStageMask |-> srcStage, dstStageMask |-> dstStage]

\* renderScene: its body is commented out, it records no command; the call
\* itself is kept as a marker of where draw() makes it.
renderScene == <<[call |-> "renderScene"]>>

\* Mutant of RecordCalls: the transition to PRESENT_SRC is recorded before
\* vkCmdEndRendering.
RecordCallsBarrierInScope(img) ==
    << [call |-> "vkResetCommandBuffer"],
       [call |-> "vkBeginCommandBuffer"],
       ImageBarrier(img, "NONE", "COLOR_ATTACHMENT_WRITE",
                    "UNDEFINED", "ATTACHMENT_OPTIMAL",
                    "COLOR_ATTACHMENT_OUTPUT", "COLOR_ATTACHMENT_OUTPUT"),
       [call |-> "vkCmdBeginRendering", imageView |-> img,
        imageLayout |-> "COLOR_ATTACHMENT_OPTIMAL",
        loadOp |-> "CLEAR", storeOp |-> "STORE"],
       [call |-> "vkCmdSetViewport"],
       [call |-> "vkCmdSetScissor"] >>
    \o renderScene
    \o << ImageBarrier(img, "COLOR_ATTACHMENT_WRITE", "NONE",
                       "ATTACHMENT_OPTIMAL", "PRESENT_SRC",
                       "COLOR_ATTACHMENT_OUTPUT", "NONE"),
          [call |-> "vkCmdEndRendering"],
          [call |-> "vkEndCommandBuffer"] >>

\* The calls draw() makes on commandBuffers[currentFrame] for image img,
\* from vkResetCommandBuffer to vkEndCommandBuffer.
RecordCalls(img) ==
    << [call |-> "vkResetCommandBuffer"],
       [call |-> "vkBeginCommandBuffer"],
       ImageBarrier(img, "NONE", "COLOR_ATTACHMENT_WRITE",
                    "UNDEFINED", "ATTACHMENT_OPTIMAL",
                    "COLOR_ATTACHMENT_OUTPUT", "COLOR_ATTACHMENT_OUTPUT"),
       [call |-> "vkCmdBeginRendering", imageView |-> img,
        imageLayout |-> "COLOR_ATTACHMENT_OPTIMAL",
        loadOp |-> "CLEAR", storeOp |-> "STORE"],
       [call |-> "vkCmdSetViewport"],
       [call |-> "vkCmdSetScissor"] >>
    \o renderScene
    \o << [call |-> "vkCmdEndRendering"],
          ImageBarrier(img, "COLOR_ATTACHMENT_WRITE", "NONE",
                       "ATTACHMENT_OPTIMAL", "PRESENT_SRC",
                       "COLOR_ATTACHMENT_OUTPUT", "NONE"),
          [call |-> "vkEndCommandBuffer"] >>

(* ----------------------------- frame loop ------------------------------ *)

\* No call has returned other than VK_SUCCESS yet.
NoReport == [frame |-> 0, by |-> "none", swapchain |-> VK_NULL_HANDLE]

\* The report kept once the call named by has returned result in the
\* current draw(): the first one that is not VK_SUCCESS.
Report(result, by) ==
    IF outOfDateReport = NoReport /\ result # "VK_SUCCESS"
    THEN [frame |-> frame, by |-> by, swapchain |-> appCtx.swapchainHandle]
    ELSE outOfDateReport

\* The swap chain and sync objects as initVulkan creates them: fences
\* created signaled, semaphores unsignaled, every image owned by the
\* presentation engine, command buffers allocated and empty, currentFrame 0.
LoopStart ==
    /\ pc = "loop"
    /\ shouldClose = FALSE
    /\ frame = 0
    /\ currentFrame = 0
    /\ imageIdx = 0
    /\ res = "VK_SUCCESS"
    /\ waitFences = [f \in Slots |-> TRUE]
    /\ presentSemaphores = [f \in Slots |-> "unsignaled"]
    /\ renderCompleteSemaphores = [i \in Images |-> "unsignaled"]
    /\ commandBuffers = [f \in Slots |-> <<>>]
    /\ graphicsQueue = <<>>
    /\ presentQueue = <<>>
    /\ imageOwner = [i \in Images |-> "engine"]
    /\ swapchainStatus = "ok"
    /\ steps = <<>>
    /\ completed = {}
    /\ lastRead = [image |-> -1, frame |-> 0, rendered |-> TRUE]
    /\ outOfDateReport = NoReport

\* The calls of a run of initVulkan in which every call succeeds.
SuccessfulCalls ==
    <<"vkCreateInstance", "glfwCreateWindowSurface",
      "vkEnumeratePhysicalDevices",
      "vkGetPhysicalDeviceQueueFamilyProperties", "vkCreateDevice",
      "vmaCreateAllocator", "vkGetDeviceQueue",
      "vkGetPhysicalDeviceSurfaceFormatsKHR",
      "vkGetPhysicalDeviceSurfaceCapabilitiesKHR",
      "vkGetPhysicalDeviceSurfacePresentModesKHR",
      "vkCreateSwapchainKHR", "vkGetSwapchainImagesKHR",
      "vkCreateFence", "vkCreateCommandPool">>

\* AppContext once initVulkan has created the swap chain and its image
\* views, on one discrete GPU with one queue family, for a surface that
\* follows the window size and whose swap chain holds NumImages images.
SwapchainAppContext ==
    [instance |-> TRUE, surface |-> TRUE, physicalDevice |-> 1,
     device |-> TRUE, allocator |-> TRUE,
     graphicsQueue |-> [idx |-> 0, queueHandle |-> TRUE],
     presentQueue |-> [idx |-> 0, queueHandle |-> TRUE],
     computeQueue |-> [idx |-> 0, queueHandle |-> TRUE],
     colorFormat |-> "B8G8R8A8_UNORM", colorSpace |-> "SRGB_NONLINEAR_KHR",
     extent |-> [width |-> 1920, height |-> 1080],
     presentMode |-> "MAILBOX",
     swapchainHandle |-> 1, oldSwapchainHandle |-> VK_NULL_HANDLE,
     images |-> NumImages, imageViews |-> NumImages,
     waitFences |-> 0, presentSemaphores |-> 0, renderCompleteSemaphores |-> 0,
     commandPool |-> FALSE, commandBuffers |-> 0,
     window |-> [width |-> 1920, height |-> 1080]]

\* The locals of initVulkan in that run, from the creation of the swap chain
\* on.
SwapchainLocals ==
    /\ error = "none"
    /\ formatCount = 1
    /\ surfaceCapabilities =
          [currentExtent |-> [width |-> UintMax, height |-> UintMax],
           minImageCount |-> NumImages - 1, maxImageCount |-> 0]
    /\ numberSwapchainImages = NumImages
    /\ enumerated = {"FIFO", "MAILBOX"}
    /\ swapchainCreateInfo =
          [minImageCount |-> NumImages, imageFormat |-> "B8G8R8A8_UNORM",
           imageColorSpace |-> "SRGB_NONLINEAR_KHR",
           imageExtent |-> [width |-> 1920, height |-> 1080],
           presentMode |-> "MAILBOX", oldSwapchain |-> VK_NULL_HANDLE]

\* The resources before initResouces runs.
NoResources ==
    /\ rpc = "createBuffer"
    /\ gpuBuffer = NewGPUBuffer
    /\ memory = <<>>
    /\ copied = 0

\* State after initVulkan and initResouces have returned, for a surface
\* whose swap chain holds NumImages images.
Init ==
    /\ LoopStart
    /\ WindowCreated
    /\ rpc = "done"
    /\ gpuBuffer = [size |-> vbuffSize + ibuffSize,
                    buffer |-> TRUE, bufferAllocation |-> TRUE]
    /\ memory = TrisGeomBytes \o IndicesBytes \o [k \in 1 .. AllocationSlack |-> Stale]
    /\ copied = 0
    /\ ipc = "done"
    /\ calls = SuccessfulCalls
    /\ appCtx = [SwapchainAppContext EXCEPT
                    !.waitFences = MAX_SWAPCHAIN_FRAMES,
                    !.presentSemaphores = MAX_SWAPCHAIN_FRAMES,
                    !.renderCompleteSemaphores = NumImages,
                    !.commandPool = TRUE,
                    !.commandBuffers = MAX_SWAPCHAIN_FRAMES]
    /\ SwapchainLocals

\* State of that run when initVulkan is about to create the sync objects.
InitMain ==
    /\ LoopStart
    /\ WindowCreated
    /\ NoResources
    /\ ipc = "sync"
    /\ calls = SubSeq(SuccessfulCalls, 1, Len(SuccessfulCalls) - 2)
    /\ appCtx = SwapchainAppContext
    /\ SwapchainLocals

\* The step s of draw() has been taken: the steps of one call are kept in
\* order, a new list starting when the previous call's list is complete.
Step(s) ==
    steps' = IF Len(steps) > 0 /\ steps[Len(steps)] = "advance"
             THEN <<s>>
             ELSE Append(steps, s)

\* loop(): the while test; main() calls loop() once initVulkan and
\* initResouces have returned.
LoopTest ==
    /\ pc = "loop"
    /\ ipc = "done"
    /\ rpc = "done"
    /\ pc' = IF shouldClose THEN "done" ELSE "poll"
    /\ UNCHANGED <<shouldClose, frame, currentFrame, imageIdx, res, waitFences,
                   presentSemaphores, renderCompleteSemaphores, commandBuffers,
                   graphicsQueue, presentQueue, imageOwner, swapchainStatus,
                   steps, completed, lastRead,
                   outOfDateReport>>
    /\ UNCHANGED initVars
    /\ UNCHANGED resVars
    /\ UNCHANGED mainVars

\* Mutant of PollEvents: the events are polled twice.
PollEventsTwice ==
    /\ pc = "poll"
    /\ \E close \in BOOLEAN :
          /\ (frame + 1 >= MaxDraws) => close
          /\ shouldClose' = close
    /\ frame' = frame + 1
    /\ pc' = "wait"
    /\ UNCHANGED <<currentFrame, imageIdx, res, waitFences, presentSemaphores,
                   renderCompleteSemaphores, commandBuffers, graphicsQueue,
                   presentQueue, imageOwner, swapchainStatus, steps,
                   completed, lastRead,
                   outOfDateReport>>
    /\ UNCHANGED initVars
    /\ UNCHANGED resVars
    /\ polls' = polls + 2
    /\ UNCHANGED <<window, process, exitCode, cerr>>

\* glfwPollEvents(), then the call of draw(): a close request may arrive, and
\* does arrive once MaxDraws calls of draw() have been started.
PollEvents ==
    /\ pc = "poll"
    /\ \E close \in BOOLEAN :
          /\ (frame + 1 >= MaxDraws) => close
          /\ shouldClose' = close
    /\ frame' = frame + 1
    /\ pc' = "wait"
    /\ UNCHANGED <<currentFrame, imageIdx, res, waitFences, presentSemaphores,
                   renderCompleteSemaphores, commandBuffers, graphicsQueue,
                   presentQueue, imageOwner, swapchainStatus, steps,
                   completed, lastRead,
                   outOfDateReport>>
    /\ UNCHANGED initVars
    /\ UNCHANGED resVars
    /\ polls' = polls + 1
    /\ UNCHANGED <<window, process, exitCode, cerr>>

\* Mutant of DrawWait: the wait returns without the fence being signaled
\* (a timeout of 0 instead of UINT64_MAX).
DrawWaitNoBlock ==
    /\ pc = "wait"
    /\ pc' = "reset"
    /\ Step("wait")
    /\ UNCHANGED <<shouldClose, frame, currentFrame, imageIdx, res, waitFences,
                   presentSemaphores, renderCompleteSemaphores, commandBuffers,
                   graphicsQueue, presentQueue, imageOwner, swapchainStatus,
                   completed, lastRead,
                   outOfDateReport>>
    /\ UNCHANGED initVars
    /\ UNCHANGED resVars
    /\ UNCHANGED mainVars

\* vkWaitForFences(waitFences[currentFrame], UINT64_MAX): returns once the
\* fence is signaled.
DrawWait ==
    /\ pc = "wait"
    /\ waitFences[currentFrame]
    /\ pc' = "reset"
    /\ Step("wait")
    /\ UNCHANGED <<shouldClose, frame, currentFrame, imageIdx, res, waitFences,
                   presentSemaphores, renderCompleteSemaphores, commandBuffers,
                   graphicsQueue, presentQueue, imageOwner, swapchainStatus,
                   completed, lastRead,
                   outOfDateReport>>
    /\ UNCHANGED initVars
    /\ UNCHANGED resVars
    /\ UNCHANGED mainVars

\* vkResetFences(waitFences[currentFrame]).
DrawReset ==
    /\ pc = "reset"
    /\ waitFences' = [waitFences EXCEPT ![currentFrame] = FALSE]
    /\ pc' = "acquire"
    /\ Step("reset")
    /\ UNCHANGED <<shouldClose, frame, currentFrame, imageIdx, res,
                   presentSemaphores, renderCompleteSemaphores, commandBuffers,
                   graphicsQueue, presentQueue, imageOwner, swapchainStatus,
                   completed, lastRead,
                   outOfDateReport>>
    /\ UNCHANGED initVars
    /\ UNCHANGED resVars
    /\ UNCHANGED mainVars

\* vkAcquireNextImageKHR(swapchainHandle, UINT64_MAX,
\* presentSemaphores[currentFrame], &imageIdx). On an out-of-date swap chain
\* it returns the error, leaving imageIdx and the semaphore alone; otherwise
\* it returns an image the engine owns, with the semaphore's signal pending.
\* draw() does not read res.
DrawAcquire ==
    /\ pc = "acquire"
    /\ \/ /\ swapchainStatus = "outOfDate"
          /\ res' = "VK_ERROR_OUT_OF_DATE_KHR"
          /\ imageIdx' = 0
          /\ UNCHANGED <<presentSemaphores, imageOwner>>
       \/ /\ swapchainStatus = "ok"
          /\ \E img \in Images :
                /\ imageOwner[img] = "engine"
                /\ imageIdx' = img
                /\ imageOwner' = [imageOwner EXCEPT ![img] = "app"]
          /\ presentSemaphores' =
                [presentSemaphores EXCEPT ![currentFrame] = "pending"]
          /\ res' = "VK_SUCCESS"
    /\ outOfDateReport' = Report(res', "acquire")
    /\ pc' = "record"
    /\ Step("acquire")
    /\ UNCHANGED <<shouldClose, frame, currentFrame, waitFences,
                   renderCompleteSemaphores, commandBuffers, graphicsQueue,
                   presentQueue, swapchainStatus, completed, lastRead>>
    /\ UNCHANGED initVars
    /\ UNCHANGED resVars
    /\ UNCHANGED mainVars

\* Mutant of DrawRecord: the recorded buffer goes straight to presentation,
\* the submission is left out.
DrawRecordThenPresent ==
    /\ pc = "record"
    /\ commandBuffers' =
          [commandBuffers EXCEPT ![currentFrame] = RecordCalls(imageIdx)]
    /\ pc' = "present"
    /\ Step("record")
    /\ UNCHANGED <<shouldClose, frame, currentFrame, imageIdx, res, waitFences,
                   presentSemaphores, renderCompleteSemaphores, graphicsQueue,
                   presentQueue, imageOwner, swapchainStatus, completed,
                   lastRead,
                   outOfDateReport>>
    /\ UNCHANGED initVars
    /\ UNCHANGED resVars
    /\ UNCHANGED mainVars

\* Mutant of DrawRecord: the calls are recorded into every slot's buffer.
DrawRecordEverySlot ==
    /\ pc = "record"
    /\ commandBuffers' =
          [f \in Slots |-> RecordCalls(imageIdx)]
    /\ pc' = "submit"
    /\ Step("record")
    /\ UNCHANGED <<shouldClose, frame, currentFrame, imageIdx, res, waitFences,
                   presentSemaphores, renderCompleteSemaphores, graphicsQueue,
                   presentQueue, imageOwner, swapchainStatus, completed,
                   lastRead,
                   outOfDateReport>>
    /\ UNCHANGED initVars
    /\ UNCHANGED resVars
    /\ UNCHANGED mainVars

\* vkResetCommandBuffer .. vkEndCommandBuffer on commandBuffers[currentFrame].
DrawRecord ==
    /\ pc = "record"
    /\ commandBuffers' =
          [commandBuffers EXCEPT ![currentFrame] = RecordCalls(imageIdx)]
    /\ pc' = "submit"
    /\ Step("record")
    /\ UNCHANGED <<shouldClose, frame, currentFrame, imageIdx, res, waitFences,
                   presentSemaphores, renderCompleteSemaphores, graphicsQueue,
                   presentQueue, imageOwner, swapchainStatus, completed,
                   lastRead,
                   outOfDateReport>>
    /\ UNCHANGED initVars
    /\ UNCHANGED resVars
    /\ UNCHANGED mainVars

\* Mutant of SubmitInfo: the render-complete semaphore is indexed by the
\* frame slot instead of the acquired image.
SubmitInfoSignalBySlot ==
    [commandBufferCount |-> 1,
     cmd |-> currentFrame,
     waitSemaphoreCount |-> 1,
     waitSemaphore |-> currentFrame,
     waitDstStageMask |-> "COLOR_ATTACHMENT_OUTPUT",
     signalSemaphoreCount |-> 1,
     signalSemaphore |-> currentFrame,
     fence |-> currentFrame,
     frame |-> frame,
     state |-> "queued"]

\* Mutant of SubmitInfo: the fence passed is the other slot's.
SubmitInfoOtherFence ==
    [commandBufferCount |-> 1,
     cmd |-> currentFrame,
     waitSemaphoreCount |-> 1,
     waitSemaphore |-> currentFrame,
     waitDstStageMask |-> "COLOR_ATTACHMENT_OUTPUT",
     signalSemaphoreCount |-> 1,
     signalSemaphore |-> imageIdx,
     fence |-> (currentFrame + 1) % MAX_SWAPCHAIN_FRAMES,
     frame |-> frame,
     state |-> "queued"]

\* The VkSubmitInfo draw() builds, and the fence it passes to vkQueueSubmit.
SubmitInfo ==
    [commandBufferCount |-> 1,
     cmd |-> currentFrame,
     waitSemaphoreCount |-> 1,
     waitSemaphore |-> currentFrame,
     waitDstStageMask |-> "COLOR_ATTACHMENT_OUTPUT",
     signalSemaphoreCount |-> 1,
     signalSemaphore |-> imageIdx,
     fence |-> currentFrame,
     frame |-> frame,
     state |-> "queued"]

\* vkQueueSubmit(graphicsQueue, &submitInfo, waitFences[currentFrame]).
DrawSubmit ==
    /\ pc = "submit"
    /\ graphicsQueue' = Append(graphicsQueue, SubmitInfo)
    /\ pc' = "present"
    /\ Step("submit")
    /\ UNCHANGED <<shouldClose, frame, currentFrame, imageIdx, res, waitFences,
                   presentSemaphores, renderCompleteSemaphores, commandBuffers,
                   presentQueue, imageOwner, swapchainStatus, completed,
                   lastRead,
                   outOfDateReport>>
    /\ UNCHANGED initVars
    /\ UNCHANGED resVars
    /\ UNCHANGED mainVars

\* Mutant of PresentInfo: the request waits on no semaphore.
PresentInfoNoWait ==
    [waitSemaphoreCount |-> 0,
     waitSemaphore |-> imageIdx,
     image |-> imageIdx,
     frame |-> frame,
     rejected |-> (swapchainStatus = "outOfDate")]

\* The VkPresentInfoKHR draw() builds. A request on an out-of-date swap chain
\* is rejected: its semaphore wait is still queued, no image is shown.
PresentInfo ==
    [waitSemaphoreCount |-> 1,
     waitSemaphore |-> imageIdx,
     image |-> imageIdx,
     frame |-> frame,
     rejected |-> (swapchainStatus = "outOfDate")]

\* Mutant of DrawPresent: the call returns only once the rendering of the
\* image has completed.
DrawPresentWhenRendered ==
    /\ pc = "present"
    /\ renderCompleteSemaphores[imageIdx] = "signaled"
    /\ presentQueue' = Append(presentQueue, PresentInfo)
    /\ res' = IF swapchainStatus = "outOfDate"
              THEN "VK_ERROR_OUT_OF_DATE_KHR" ELSE "VK_SUCCESS"
    /\ outOfDateReport' = Report(res', "present")
    /\ imageOwner' = IF swapchainStatus = "ok"
                     THEN [imageOwner EXCEPT ![imageIdx] = "queued"]
                     ELSE imageOwner
    /\ pc' = "advance"
    /\ Step("present")
    /\ UNCHANGED <<shouldClose, frame, currentFrame, imageIdx, waitFences,
                   presentSemaphores, renderCompleteSemaphores, commandBuffers,
                   graphicsQueue, swapchainStatus, completed, lastRead>>
    /\ UNCHANGED initVars
    /\ UNCHANGED resVars
    /\ UNCHANGED mainVars

\* vkQueuePresentKHR(presentQueue, &presentInfo); draw() does not read res.
DrawPresent ==
    /\ pc = "present"
    /\ presentQueue' = Append(presentQueue, PresentInfo)
    /\ res' = IF swapchainStatus = "outOfDate"
              THEN "VK_ERROR_OUT_OF_DATE_KHR" ELSE "VK_SUCCESS"
    /\ outOfDateReport' = Report(res', "present")
    /\ imageOwner' = IF swapchainStatus = "ok"
                     THEN [imageOwner EXCEPT ![imageIdx] = "queued"]
                     ELSE imageOwner
    /\ pc' = "advance"
    /\ Step("present")
    /\ UNCHANGED <<shouldClose, frame, currentFrame, imageIdx, waitFences,
                   presentSemaphores, renderCompleteSemaphores, commandBuffers,
                   graphicsQueue, swapchainStatus, completed, lastRead>>
    /\ UNCHANGED initVars
    /\ UNCHANGED resVars
    /\ UNCHANGED mainVars

\* Mutant of DrawAdvance: the modulus is one too large.
DrawAdvanceWrongModulus ==
    /\ pc = "advance"
    /\ currentFrame' = (currentFrame + 1) % (MAX_SWAPCHAIN_FRAMES + 1)
    /\ imageIdx' = 0
    /\ res' = "VK_SUCCESS"
    /\ pc' = "loop"
    /\ Step("advance")
    /\ UNCHANGED <<shouldClose, frame, waitFences,
                   presentSemaphores, renderCompleteSemaphores, commandBuffers,
                   graphicsQueue, presentQueue, imageOwner, swapchainStatus,
                   completed, lastRead,
                   outOfDateReport>>
    /\ UNCHANGED initVars
    /\ UNCHANGED resVars
    /\ UNCHANGED mainVars

\* currentFrame = (currentFrame + 1) % MAX_SWAPCHAIN_FRAMES, and the return
\* to loop(), where the locals imageIdx and res no longer exist.
DrawAdvance ==
    /\ pc = "advance"
    /\ currentFrame' = (currentFrame + 1) % MAX_SWAPCHAIN_FRAMES
    /\ imageIdx' = 0
    /\ res' = "VK_SUCCESS"
    /\ pc' = "loop"
    /\ Step("advance")
    /\ UNCHANGED <<shouldClose, frame, waitFences,
                   presentSemaphores, renderCompleteSemaphores, commandBuffers,
                   graphicsQueue, presentQueue, imageOwner, swapchainStatus,
                   completed, lastRead,
                   outOfDateReport>>
    /\ UNCHANGED initVars
    /\ UNCHANGED resVars
    /\ UNCHANGED mainVars

(* ------------- the device and the presentation engine ------------------ *)

\* The engine makes the acquired image available: the signal of the acquire
\* semaphore happens.
EngineSignalAcquire(f) ==
    /\ presentSemaphores[f] = "pending"
    /\ presentSemaphores' = [presentSemaphores EXCEPT ![f] = "signaled"]
    /\ UNCHANGED <<pc, shouldClose, frame, currentFrame, imageIdx, res,
                   waitFences, renderCompleteSemaphores, commandBuffers,
                   graphicsQueue, presentQueue, imageOwner, swapchainStatus,
                   steps, completed, lastRead,
                   outOfDateReport>>
    /\ UNCHANGED initVars
    /\ UNCHANGED resVars
    /\ UNCHANGED mainVars

\* The device starts the k-th submission of the queue once those before it
\* have started and its wait semaphore is signaled; the wait unsignals it.
DeviceStart(k) ==
    /\ k \in 1 .. Len(graphicsQueue)
    /\ graphicsQueue[k].state = "queued"
    /\ \A j \in 1 .. (k - 1) : graphicsQueue[j].state = "executing"
    /\ IF graphicsQueue[k].waitSemaphoreCount = 0
       THEN UNCHANGED presentSemaphores
       ELSE /\ presentSemaphores[graphicsQueue[k].waitSemaphore] = "signaled"
            /\ presentSemaphores' =
                  [presentSemaphores EXCEPT
                      ![graphicsQueue[k].waitSemaphore] = "unsignaled"]
    /\ graphicsQueue' = [graphicsQueue EXCEPT ![k].state = "executing"]
    /\ UNCHANGED <<pc, shouldClose, frame, currentFrame, imageIdx, res,
                   waitFences, renderCompleteSemaphores, commandBuffers,
                   presentQueue, imageOwner, swapchainStatus, steps, completed,
                   lastRead,
                   outOfDateReport>>
    /\ UNCHANGED initVars
    /\ UNCHANGED resVars
    /\ UNCHANGED mainVars

\* The device completes the oldest submission: its signal semaphore and its
\* fence are signaled.
DeviceFinish ==
    /\ Len(graphicsQueue) > 0
    /\ graphicsQueue[1].state = "executing"
    /\ renderCompleteSemaphores' =
          IF graphicsQueue[1].signalSemaphoreCount = 0
          THEN renderCompleteSemaphores
          ELSE [renderCompleteSemaphores EXCEPT
                   ![graphicsQueue[1].signalSemaphore] = "signaled"]
    /\ waitFences' = [waitFences EXCEPT ![graphicsQueue[1].fence] = TRUE]
    /\ completed' = completed \cup {graphicsQueue[1].frame}
    /\ graphicsQueue' = Tail(graphicsQueue)
    /\ UNCHANGED <<pc, shouldClose, frame, currentFrame, imageIdx, res,
                   presentSemaphores, commandBuffers, presentQueue, imageOwner,
                   swapchainStatus, steps, lastRead,
                   outOfDateReport>>
    /\ UNCHANGED initVars
    /\ UNCHANGED resVars
    /\ UNCHANGED mainVars

\* The engine executes the oldest present request once its wait semaphore is
\* signaled: the wait unsignals it; unless the request was rejected the
\* image is read for display and returns to the engine.
EnginePresent ==
    /\ Len(presentQueue) > 0
    /\ IF presentQueue[1].waitSemaphoreCount = 0
       THEN UNCHANGED renderCompleteSemaphores
       ELSE /\ renderCompleteSemaphores[presentQueue[1].waitSemaphore] = "signaled"
            /\ renderCompleteSemaphores' =
                  [renderCompleteSemaphores EXCEPT
                      ![presentQueue[1].waitSemaphore] = "unsignaled"]
    /\ IF presentQueue[1].rejected
       THEN UNCHANGED <<imageOwner, lastRead>>
       ELSE /\ imageOwner' = [imageOwner EXCEPT ![presentQueue[1].image] = "engine"]
            /\ lastRead' = [image |-> presentQueue[1].image,
                            frame |-> presentQueue[1].frame,
                            rendered |-> presentQueue[1].frame \in completed]
    /\ presentQueue' = Tail(presentQueue)
    /\ UNCHANGED <<pc, shouldClose, frame, currentFrame, imageIdx, res,
                   waitFences, presentSemaphores, commandBuffers, graphicsQueue,
                   swapchainStatus, steps, completed,
                   outOfDateReport>>
    /\ UNCHANGED initVars
    /\ UNCHANGED resVars
    /\ UNCHANGED mainVars

\* The surface changes (the window is resized): the swap chain no longer
\* matches it, and stays so, as nothing recreates it.
SurfaceChanged ==
    /\ swapchainStatus = "ok"
    /\ pc # "done"
    /\ swapchainStatus' = "outOfDate"
    /\ UNCHANGED <<pc, shouldClose, frame, currentFrame, imageIdx, res,
                   waitFences, presentSemaphores, renderCompleteSemaphores,
                   commandBuffers, graphicsQueue, presentQueue, imageOwner,
                   steps, completed, lastRead, outOfDateReport>>
    /\ UNCHANGED initVars
    /\ UNCHANGED resVars
    /\ UNCHANGED mainVars

Next ==
    \/ LoopTest
    \/ PollEvents
    \/ DrawWait
    \/ DrawReset
    \/ DrawAcquire
    \/ DrawRecord
    \/ DrawSubmit
    \/ DrawPresent
    \/ DrawAdvance
    \/ \E f \in Slots : EngineSignalAcquire(f)
    \/ \E k \in 1 .. MAX_SWAPCHAIN_FRAMES : DeviceStart(k)
    \/ DeviceFinish
    \/ EnginePresent
    \/ SurfaceChanged
    \/ MainReturn

Spec == Init /\ [][Next]_vars

\* The driving thread runs main(): whichever statement it is at is executed
\* once it can complete.
DrivingThread ==
    \/ LoopTest
    \/ PollEvents
    \/ DrawWait
    \/ DrawReset
    \/ DrawAcquire
    \/ DrawRecord
    \/ DrawSubmit
    \/ DrawPresent
    \/ DrawAdvance
    \/ MainReturn

\* The frame loop on a device that eventually starts and completes every
\* submission whose wait semaphore is signaled, with a presentation engine
\* that eventually signals every acquire and executes every present request
\* whose wait semaphore is signaled, releasing its image.
SpecLive ==
    /\ Init
    /\ [][Next]_vars
    /\ WF_vars(DrivingThread)
    /\ \A f \in Slots : WF_vars(EngineSignalAcquire(f))
    /\ \A k \in 1 .. MAX_SWAPCHAIN_FRAMES : WF_vars(DeviceStart(k))
    /\ WF_vars(DeviceFinish)
    /\ WF_vars(EnginePresent)

\* State at the entry of main().
InitI ==
    /\ LoopStart
    /\ window = FALSE
    /\ process = "running"
    /\ exitCode = 0
    /\ cerr = ""
    /\ polls = 0
    /\ NoResources
    /\ ipc = "instance"
    /\ error = "none"
    /\ calls = <<>>
    /\ appCtx = NewAppContext
    /\ formatCount = 0
    /\ surfaceCapabilities = NoCapabilities
    /\ numberSwapchainImages = 0
    /\ enumerated = <<>>
    /\ swapchainCreateInfo = NoCreateInfo

NextInit ==
    \/ InitWindow
    \/ InitCreateInstance
    \/ InitCreateSurface
    \/ InitSelectPhysicalDevice
    \/ InitResolveQueues
    \/ InitCreateDevice
    \/ InitCreateAllocator
    \/ InitGetQueues
    \/ InitSurfaceFormats
    \/ InitExtent
    \/ InitPresentModes
    \/ InitImageCount
    \/ InitCreateSwapchain
    \/ InitSwapchainImages
    \/ InitSyncObjects
    \/ InitCommandBuffers

SpecInit == InitI /\ [][NextInit]_vars

\* main() from the creation of the sync objects on: the end of initVulkan,
\* initResouces, then the frame loop.
NextMain ==
    \/ InitSyncObjects
    \/ InitCommandBuffers
    \/ ResCreateBuffer
    \/ ResMapMemory
    \/ ResCopyVertices
    \/ ResCopyIndices
    \/ ResUnmapMemory
    \/ ResCreateObjects
    \/ Next

SpecMain == InitMain /\ [][NextMain]_vars

(* ------------------------- frame loop properties ----------------------- *)

\* The submissions of slot i's command buffer the device has not completed.
Pending(i) == {k \in 1 .. Len(graphicsQueue) : graphicsQueue[k].cmd = i}

\* The positions in a list of calls of the calls named name.
Positions(recorded, name) == {k \in 1 .. Len(recorded) : recorded[k].call = name}

\* The only member of a one-element set of numbers.
TheOne(S) == CHOOSE x \in S : TRUE

\* C1: in every reachable state at most MAX_FRAMES (= 2) submissions are in
\* flight (submitted to the graphics queue and not yet completed), and the
\* fence of each of them is unsignaled.
C1_AtMostMaxFramesInFlight ==
    /\ Len(graphicsQueue) <= MAX_SWAPCHAIN_FRAMES
    /\ \A k \in 1 .. Len(graphicsQueue) : ~waitFences[graphicsQueue[k].fence]

C1_Witness ==
    /\ Len(graphicsQueue) = MAX_SWAPCHAIN_FRAMES
    /\ pc = "wait"
    /\ frame > MAX_SWAPCHAIN_FRAMES

\* C2: from the return of the wait on waitFences[f] until the submit, so
\* while draw() resets and re-records commandBuffers[f], no earlier
\* submission of commandBuffers[f] is still on the device.
C2_NoRecordWhilePending ==
    (pc \in {"reset", "acquire", "record", "submit"}) => Pending(currentFrame) = {}

C2_Witness ==
    /\ pc = "submit"
    /\ frame > MAX_SWAPCHAIN_FRAMES
    /\ Len(graphicsQueue) = 1

\* C3: whenever the presentation engine reads an image for display, the
\* submission made for that image by the same draw() has completed.
C3_PresentAfterRender == lastRead.rendered

C3_Witness ==
    /\ lastRead.image \in Images
    /\ lastRead.frame > NumImages

\* C4 as stated: for each slot i, waitFences[i] is signaled exactly when no
\* submission of slot i's command buffer is executing, in every state.
C4_Original ==
    \A i \in Slots : waitFences[i] <=> (Pending(i) = {})

\* C4 amended: the equivalence holds except while draw() for slot i is
\* between vkResetFences and vkQueueSubmit, where the fence is unsignaled and
\* nothing of slot i is on the device.
C4_FenceTracksCompletion ==
    \A i \in Slots :
        waitFences[i] <=>
            /\ Pending(i) = {}
            /\ ~(currentFrame = i /\ pc \in {"acquire", "record", "submit"})

C4_Witness ==
    \E i \in Slots :
        /\ ~waitFences[i]
        /\ Pending(i) # {}
        /\ waitFences[(i + 1) % MAX_SWAPCHAIN_FRAMES]
        /\ completed # {}

\* The order of the steps of draw().
StepOrder ==
    <<"wait", "reset", "acquire", "record", "submit", "present", "advance">>

\* C5: the steps taken by a call of draw() are, in order, wait, reset,
\* acquire, record, submit, present, advance: at each moment a prefix of that
\* list, no step of the next call coming before the advance of this one.
C5_StepsInOrder ==
    /\ Len(steps) <= Len(StepOrder)
    /\ steps = SubSeq(StepOrder, 1, Len(steps))

C5_Witness ==
    /\ steps = StepOrder
    /\ frame >= MAX_SWAPCHAIN_FRAMES
    /\ pc = "loop"

\* The image the calls recorded into a command buffer target.
TargetImage(recorded) ==
    recorded[TheOne(Positions(recorded, "vkCmdBeginRendering"))].imageView

\* C6: every submission, made by the n-th draw() for slot f = (n-1) mod
\* MAX_FRAMES, waits on presentSemaphores[f] at the color-attachment-output
\* stage, signals waitFences[f], and signals the render-complete semaphore of
\* the image its command buffer renders into, and nothing else.
C6_SubmitSyncObjects ==
    \A k \in 1 .. Len(graphicsQueue) :
        LET sub == graphicsQueue[k] IN
        /\ sub.cmd = (sub.frame - 1) % MAX_SWAPCHAIN_FRAMES
        /\ sub.commandBufferCount = 1
        /\ sub.waitSemaphoreCount = 1
        /\ sub.waitSemaphore = sub.cmd
        /\ sub.waitDstStageMask = "COLOR_ATTACHMENT_OUTPUT"
        /\ sub.signalSemaphoreCount = 1
        /\ sub.signalSemaphore = TargetImage(commandBuffers[sub.cmd])
        /\ sub.fence = sub.cmd

C6_Witness ==
    /\ Len(graphicsQueue) = MAX_SWAPCHAIN_FRAMES
    /\ \E k \in 1 .. Len(graphicsQueue) :
          graphicsQueue[k].signalSemaphore >= MAX_SWAPCHAIN_FRAMES

\* C7: currentFrame is always in [0, MAX_FRAMES); the n-th call of draw()
\* runs on slot (n-1) mod MAX_FRAMES, and once it has returned currentFrame
\* is n mod MAX_FRAMES.
C7_RoundRobin ==
    /\ currentFrame \in Slots
    /\ currentFrame =
          IF pc \in {"loop", "poll", "done"}
          THEN frame % MAX_SWAPCHAIN_FRAMES
          ELSE (frame - 1) % MAX_SWAPCHAIN_FRAMES

C7_Witness ==
    /\ pc = "loop"
    /\ frame = MAX_SWAPCHAIN_FRAMES + 1
    /\ currentFrame = 1

\* C8: a recorded frame holds exactly two layout transitions of one image,
\* UNDEFINED -> ATTACHMENT_OPTIMAL then ATTACHMENT_OPTIMAL -> PRESENT_SRC,
\* exactly one begin-rendering and one end-rendering lying strictly between
\* them, and the call of renderScene strictly between begin and end.
FrameWellFormed(recorded) ==
    LET barriers == Positions(recorded, "vkCmdPipelineBarrier")
        begins   == Positions(recorded, "vkCmdBeginRendering")
        ends     == Positions(recorded, "vkCmdEndRendering")
        scenes   == Positions(recorded, "renderScene")
    IN  /\ Cardinality(barriers) = 2
        /\ Cardinality(begins) = 1
        /\ Cardinality(ends) = 1
        /\ Cardinality(scenes) = 1
        /\ LET b1 == CHOOSE b \in barriers : \A c \in barriers : b <= c
               b2 == CHOOSE b \in barriers : \A c \in barriers : c <= b
               bg == TheOne(begins)
               en == TheOne(ends)
               sc == TheOne(scenes)
           IN  /\ recorded[b1].oldLayout = "UNDEFINED"
               /\ recorded[b1].newLayout = "ATTACHMENT_OPTIMAL"
               /\ recorded[b2].oldLayout = "ATTACHMENT_OPTIMAL"
               /\ recorded[b2].newLayout = "PRESENT_SRC"
               /\ recorded[b1].image = recorded[b2].image
               /\ recorded[b1].image = recorded[bg].imageView
               /\ b1 < bg
               /\ bg < sc
               /\ sc < en
               /\ en < b2

C8_LayoutTransitions ==
    \A f \in Slots : commandBuffers[f] # <<>> => FrameWellFormed(commandBuffers[f])

C8_Witness ==
    /\ \A f \in Slots : commandBuffers[f] # <<>>
    /\ TargetImage(commandBuffers[0]) # TargetImage(commandBuffers[1])

(* ----------------------- initialization properties --------------------- *)

\* C9 as stated: the image count requested for the swap chain lies between
\* minImageCount and maxImageCount when maxImageCount > 0, and is at least
\* minImageCount when maxImageCount = 0, for every reported pair, also when
\* minImageCount + 1 wraps around.
C9_ImageCountInRange ==
    (ipc = "swapchain") =>
        IF surfaceCapabilities.maxImageCount > 0
        THEN /\ surfaceCapabilities.minImageCount <= numberSwapchainImages
             /\ numberSwapchainImages <= surfaceCapabilities.maxImageCount
        ELSE numberSwapchainImages >= surfaceCapabilities.minImageCount

\* C10 as stated: when zero surface formats are reported, initialization
\* fails with the no-surface-format error before any logical device or
\* allocator has been created.
C10_Original ==
    (Called("vkGetPhysicalDeviceSurfaceFormatsKHR") /\ formatCount = 0) =>
        /\ ipc = "failed"
        /\ error = "Not found ANY surface color format!!!!"
        /\ ~Called("vkCreateDevice")
        /\ ~Called("vmaCreateAllocator")
        /\ ~appCtx.device
        /\ ~appCtx.allocator

\* C10 amended: when the format query reports zero surface formats,
\* initialization fails with the no-surface-format error, and only then; the
\* logical device and the allocator exist by then, no swap chain does.
C10_NoFormatFailsBeforeSwapchain ==
    /\ (Called("vkGetPhysicalDeviceSurfaceFormatsKHR") /\ formatCount = 0) =>
          /\ ipc = "failed"
          /\ error = "Not found ANY surface color format!!!!"
          /\ appCtx.device
          /\ appCtx.allocator
          /\ ~Called("vkCreateSwapchainKHR")
          /\ appCtx.swapchainHandle = VK_NULL_HANDLE
    /\ (error = "Not found ANY surface color format!!!!") =>
          /\ Called("vkGetPhysicalDeviceSurfaceFormatsKHR")
          /\ formatCount = 0

C10_Witness ==
    /\ ipc = "failed"
    /\ error = "Not found ANY surface color format!!!!"
    /\ formatCount = 0
    /\ appCtx.device
    /\ appCtx.physicalDevice = MaxDevices

\* The enumerations of initVulkan, and the one it made last.
Enumerations ==
    {"vkEnumeratePhysicalDevices", "vkGetPhysicalDeviceQueueFamilyProperties",
     "vkGetPhysicalDeviceSurfaceFormatsKHR",
     "vkGetPhysicalDeviceSurfacePresentModesKHR"}

LatestEnumeration ==
    LET S == {k \in 1 .. Len(calls) : calls[k] \in Enumerations}
    IN  IF S = {} THEN "none"
        ELSE calls[CHOOSE k \in S : \A j \in S : j <= k]

\* C11 as stated: for every non-empty set of reported present modes, the
\* mode selected is MAILBOX when MAILBOX is reported and FIFO otherwise, so a
\* member of the reported set, or initVulkan has failed with a named error
\* before it creates the swap chain; the mode is never an unreported one and
\* never an undefined value.
C11_PresentModeReported ==
    (LatestEnumeration = "vkGetPhysicalDeviceSurfacePresentModesKHR"
        /\ enumerated # {}) =>
        \/ /\ appCtx.presentMode \in enumerated
           /\ appCtx.presentMode =
                 IF "MAILBOX" \in enumerated THEN "MAILBOX" ELSE "FIFO"
        \/ /\ ipc = "failed"
           /\ error # "none"
           /\ ~Called("vkCreateSwapchainKHR")

\* The positions of a list of surface formats that hold a preferred format.
PreferredPositions(surfaceFormats) ==
    {k \in 1 .. Len(surfaceFormats) : IsPreferred(surfaceFormats[k].format)}

\* The place of a preferred format in the vector preferredFormats.
Rank(format) == CHOOSE r \in 1 .. Len(preferredFormats) : preferredFormats[r] = format

\* C12 as stated: for every non-empty list of reported formats the selection
\* does not fail and yields the reported format that ranks earliest in the
\* preference order, whatever the order of the report; the first reported
\* format when none is preferred.
C12_Original ==
    (LatestEnumeration = "vkGetPhysicalDeviceSurfaceFormatsKHR"
        /\ enumerated # <<>>) =>
        /\ ipc # "failed"
        /\ LET P == PreferredPositions(enumerated)
           IN  IF P = {}
               THEN appCtx.colorFormat = enumerated[1].format
               ELSE /\ IsPreferred(appCtx.colorFormat)
                    /\ \A k \in P : Rank(appCtx.colorFormat) <= Rank(enumerated[k].format)

\* C12 amended: for every non-empty list of reported formats the selection
\* does not fail and yields the first format, in the order of the report,
\* that is in the preference list, with its color space; the first reported
\* format when none is preferred.
C12_FirstReportedPreferred ==
    (LatestEnumeration = "vkGetPhysicalDeviceSurfaceFormatsKHR"
        /\ enumerated # <<>>) =>
        /\ ipc # "failed"
        /\ error = "none"
        /\ LET P == PreferredPositions(enumerated)
               sel == IF P = {} THEN 1 ELSE CHOOSE k \in P : \A j \in P : k <= j
           IN  /\ appCtx.colorFormat = enumerated[sel].format
               /\ appCtx.colorSpace = enumerated[sel].colorSpace

C12_Witness ==
    /\ LatestEnumeration = "vkGetPhysicalDeviceSurfaceFormatsKHR"
    /\ Len(enumerated) = 2
    /\ enumerated[1].format = "R8G8B8A8_UNORM"
    /\ enumerated[2].format = "B8G8R8A8_UNORM"
    /\ appCtx.colorFormat = "R8G8B8A8_UNORM"

\* The two messages of the failure to find a suitable GPU.
NoSuitableGPU ==
    {"Failed to find Vulkan supported GPU", "Failed to select Vulkan supported GPU"}

\* C13: after the enumeration of the physical devices, if the list is empty
\* or holds no discrete device, initVulkan has failed with the no-suitable-GPU
\* error, no device is selected, no queue family is resolved and no logical
\* device is created; otherwise the first discrete device of the list is the
\* selected one and initVulkan goes on. The error is raised in no other case.
C13_DiscreteDeviceOrFail ==
    /\ (LatestEnumeration = "vkEnumeratePhysicalDevices") =>
          LET D == {k \in 1 .. Len(enumerated) : enumerated[k] = "DISCRETE_GPU"}
          IN  IF D = {}
              THEN /\ ipc = "failed"
                   /\ error = IF Len(enumerated) = 0
                              THEN "Failed to find Vulkan supported GPU"
                              ELSE "Failed to select Vulkan supported GPU"
                   /\ appCtx.physicalDevice = VK_NULL_HANDLE
                   /\ appCtx.graphicsQueue.idx = nullopt
                   /\ appCtx.presentQueue.idx = nullopt
                   /\ appCtx.computeQueue.idx = nullopt
                   /\ ~appCtx.device
                   /\ ~Called("vkGetPhysicalDeviceQueueFamilyProperties")
                   /\ ~Called("vkCreateDevice")
              ELSE /\ ipc = "queueFamilies"
                   /\ error = "none"
                   /\ appCtx.physicalDevice = CHOOSE k \in D : \A j \in D : k <= j
    /\ (error \in NoSuitableGPU) =>
          /\ LatestEnumeration = "vkEnumeratePhysicalDevices"
          /\ \A k \in 1 .. Len(enumerated) : enumerated[k] # "DISCRETE_GPU"
    /\ Called("vkGetPhysicalDeviceQueueFamilyProperties") =>
          appCtx.physicalDevice # VK_NULL_HANDLE

C13_Witness ==
    /\ LatestEnumeration = "vkEnumeratePhysicalDevices"
    /\ Len(enumerated) = MaxDevices
    /\ \A k \in 1 .. Len(enumerated) : enumerated[k] = "INTEGRATED_GPU"
    /\ ipc = "failed"
    /\ error = "Failed to select Vulkan supported GPU"

\* Some family of the list has the capability cap.
HasCapability(queueFamilies, cap) ==
    \E k \in 1 .. Len(queueFamilies) : queueFamilies[k][cap]

\* C14: when the selected device has no family with graphics or none that
\* can present to the surface, initVulkan has failed at the resolution of the
\* queues, before vkCreateDevice is called; and whenever vkCreateDevice has
\* been called, graphicsQueue.idx and presentQueue.idx both hold a value.
C14_QueuesResolvedBeforeDevice ==
    /\ (LatestEnumeration = "vkGetPhysicalDeviceQueueFamilyProperties"
           /\ (~HasCapability(enumerated, "graphics")
                  \/ ~HasCapability(enumerated, "present"))) =>
          /\ ipc = "failed"
          /\ error = "bad optional access"
          /\ ~Called("vkCreateDevice")
          /\ ~appCtx.device
    /\ (Called("vkCreateDevice") \/ appCtx.device) =>
          /\ appCtx.graphicsQueue.idx # nullopt
          /\ appCtx.presentQueue.idx # nullopt

C14_Witness ==
    /\ LatestEnumeration = "vkGetPhysicalDeviceQueueFamilyProperties"
    /\ Len(enumerated) = MaxFamilies
    /\ HasCapability(enumerated, "graphics")
    /\ ~HasCapability(enumerated, "present")
    /\ ipc = "failed"
    /\ appCtx.graphicsQueue.idx # nullopt

\* The optional index idx holds the index of a family of the list that has
\* the capability cap.
ResolvedTo(queueFamilies, idx, cap) ==
    /\ idx # nullopt
    /\ idx + 1 \in 1 .. Len(queueFamilies)
    /\ queueFamilies[idx + 1][cap]

\* C15 as stated: for every list of queue families with at least one
\* graphics family, one compute family and one family that can present, the
\* three queue records are resolved, each to the index of a family with that
\* capability, and initVulkan does not fail while it resolves or fetches the
\* queues.
C15_AllThreeQueuesResolved ==
    (LatestEnumeration = "vkGetPhysicalDeviceQueueFamilyProperties"
        /\ HasCapability(enumerated, "graphics")
        /\ HasCapability(enumerated, "compute")
        /\ HasCapability(enumerated, "present")) =>
        /\ ResolvedTo(enumerated, appCtx.graphicsQueue.idx, "graphics")
        /\ ResolvedTo(enumerated, appCtx.computeQueue.idx, "compute")
        /\ ResolvedTo(enumerated, appCtx.presentQueue.idx, "present")
        /\ error # "bad optional access"

\* The value of currentExtent that stands for "the size follows the window".
SentinelExtent == [width |-> UintMax, height |-> UintMax]

\* C16: once the extent is derived, if the surface reported the sentinel
\* current extent the swap extent is the window size the application asked
\* for, which is left as it was; otherwise the swap extent is the reported
\* current extent and the window size record holds it too; in both cases the
\* swap extent equals the window size record.
C16_ExtentDerivation ==
    Called("vkGetPhysicalDeviceSurfaceCapabilitiesKHR") =>
        /\ IF surfaceCapabilities.currentExtent = SentinelExtent
           THEN /\ appCtx.extent = NewAppContext.window
                /\ appCtx.window = NewAppContext.window
           ELSE /\ appCtx.extent = surfaceCapabilities.currentExtent
                /\ appCtx.window = surfaceCapabilities.currentExtent
        /\ appCtx.extent.width = appCtx.window.width
        /\ appCtx.extent.height = appCtx.window.height

C16_Witness ==
    /\ Called("vkGetPhysicalDeviceSurfaceCapabilitiesKHR")
    /\ surfaceCapabilities.currentExtent # SentinelExtent
    /\ appCtx.window = surfaceCapabilities.currentExtent
    /\ appCtx.window # NewAppContext.window
    /\ ipc = "done"

\* vkCreateSwapchainKHR has been called and has returned VK_SUCCESS.
SwapchainCreated ==
    /\ Called("vkCreateSwapchainKHR")
    /\ error # "Failed to create swapchain"

\* Every call that destroys a swap chain comes after a call that creates one.
DestroyOnlyAfterCreate ==
    \A k \in 1 .. Len(calls) :
        (calls[k] = "vkDestroySwapchainKHR") =>
            \E j \in 1 .. (k - 1) : calls[j] = "vkCreateSwapchainKHR"

\* C17 as stated: the swap chain is created with oldSwapchain referencing the
\* previous handle, the previous handle is destroyed only after the creation
\* of the new one has succeeded, and at no point of a creation are the
\* current and the previous handle both invalid.
C17_Original ==
    /\ Called("vkCreateSwapchainKHR") =>
          /\ swapchainCreateInfo.oldSwapchain = appCtx.oldSwapchainHandle
          /\ ~(appCtx.swapchainHandle = VK_NULL_HANDLE
                 /\ appCtx.oldSwapchainHandle = VK_NULL_HANDLE)
    /\ DestroyOnlyAfterCreate

\* C17 amended: the swap chain is created with oldSwapchain referencing the
\* previous handle, which at the one creation initVulkan performs is
\* VK_NULL_HANDLE; no swap chain is destroyed; until the creation call has
\* returned successfully both handles are VK_NULL_HANDLE, and from then on
\* the current handle is a valid one, different from the previous.
C17_OldSwapchainKept ==
    /\ Called("vkCreateSwapchainKHR") =>
          /\ swapchainCreateInfo.oldSwapchain = appCtx.oldSwapchainHandle
          /\ swapchainCreateInfo.oldSwapchain = VK_NULL_HANDLE
    /\ DestroyOnlyAfterCreate
    /\ ~Called("vkDestroySwapchainKHR")
    /\ IF SwapchainCreated
       THEN /\ appCtx.swapchainHandle # VK_NULL_HANDLE
            /\ appCtx.swapchainHandle # appCtx.oldSwapchainHandle
       ELSE /\ appCtx.swapchainHandle = VK_NULL_HANDLE
            /\ appCtx.oldSwapchainHandle = VK_NULL_HANDLE

C17_Witness ==
    /\ SwapchainCreated
    /\ ipc = "done"
    /\ appCtx.swapchainHandle # VK_NULL_HANDLE
    /\ swapchainCreateInfo.oldSwapchain = VK_NULL_HANDLE
    /\ swapchainCreateInfo.minImageCount > 0

(* ------------------- frame loop properties, continued ------------------ *)

\* C18 as stated: once acquire or present has reported that the swap chain
\* no longer matches the surface, and as long as
\* that swap chain has not been replaced, no later draw() acquires an image
\* and no frame is submitted after the report.
C18_RebuiltOnResize ==
    (outOfDateReport # NoReport
        /\ appCtx.swapchainHandle = outOfDateReport.swapchain) =>
        /\ ~(frame > outOfDateReport.frame
               /\ pc \in {"record", "submit", "present", "advance"})
        /\ \A k \in 1 .. Len(graphicsQueue) :
              /\ graphicsQueue[k].frame <= outOfDateReport.frame
              /\ (graphicsQueue[k].frame = outOfDateReport.frame) =>
                    outOfDateReport.by = "present"

(* ---------------- initialization followed by the frame loop ------------ *)

\* The indices below n.
Below(n) == 0 .. (n - 1)

\* C19: once initVulkan has returned there are MAX_SWAPCHAIN_FRAMES fences,
\* MAX_SWAPCHAIN_FRAMES acquire semaphores, MAX_SWAPCHAIN_FRAMES command
\* buffers, and one image view and one render-complete semaphore per swap
\* chain image; and every index draw() uses stays inside its collection: the
\* slot index for fences, acquire semaphores and command buffers, the image
\* index for images, image views and render-complete semaphores.
C19_CollectionsAndIndices ==
    (ipc = "done") =>
        /\ appCtx.waitFences = MAX_SWAPCHAIN_FRAMES
        /\ appCtx.presentSemaphores = MAX_SWAPCHAIN_FRAMES
        /\ appCtx.commandBuffers = MAX_SWAPCHAIN_FRAMES
        /\ appCtx.imageViews = appCtx.images
        /\ appCtx.renderCompleteSemaphores = appCtx.images
        /\ DOMAIN waitFences = Below(appCtx.waitFences)
        /\ DOMAIN presentSemaphores = Below(appCtx.presentSemaphores)
        /\ DOMAIN commandBuffers = Below(appCtx.commandBuffers)
        /\ DOMAIN renderCompleteSemaphores = Below(appCtx.renderCompleteSemaphores)
        /\ DOMAIN imageOwner = Below(appCtx.images)
        /\ currentFrame \in Below(appCtx.waitFences)
        /\ currentFrame \in Below(appCtx.presentSemaphores)
        /\ currentFrame \in Below(appCtx.commandBuffers)
        /\ imageIdx \in Below(appCtx.images)
        /\ imageIdx \in Below(appCtx.imageViews)
        /\ imageIdx \in Below(appCtx.renderCompleteSemaphores)
        /\ \A f \in DOMAIN commandBuffers :
              \A k \in 1 .. Len(commandBuffers[f]) :
                  LET c == commandBuffers[f][k] IN
                  /\ (c.call = "vkCmdPipelineBarrier") => c.image \in Below(appCtx.images)
                  /\ (c.call = "vkCmdBeginRendering") =>
                        c.imageView \in Below(appCtx.imageViews)
        /\ \A k \in 1 .. Len(graphicsQueue) :
              /\ graphicsQueue[k].cmd \in Below(appCtx.commandBuffers)
              /\ graphicsQueue[k].waitSemaphore \in Below(appCtx.presentSemaphores)
              /\ graphicsQueue[k].fence \in Below(appCtx.waitFences)
              /\ graphicsQueue[k].signalSemaphore
                    \in Below(appCtx.renderCompleteSemaphores)
        /\ \A k \in 1 .. Len(presentQueue) :
              /\ presentQueue[k].waitSemaphore \in Below(appCtx.renderCompleteSemaphores)
              /\ presentQueue[k].image \in Below(appCtx.images)

C19_Witness ==
    /\ ipc = "done"
    /\ appCtx.images > MAX_SWAPCHAIN_FRAMES
    /\ pc = "advance"
    /\ imageIdx >= MAX_SWAPCHAIN_FRAMES
    /\ \E k \in 1 .. Len(graphicsQueue) : graphicsQueue[k].signalSemaphore = imageIdx
    /\ \E k \in 1 .. Len(presentQueue) : presentQueue[k].waitSemaphore = imageIdx


(* ------------------------- the geometry buffer -------------------------- *)

\* The bytes of the buffer at the offsets lo .. hi - 1.
ReadBack(lo, hi) == SubSeq(memory, lo + 1, hi)

\* Both copies of initResouces have completed.
GeometryWritten == rpc \in {"unmap", "objects", "done"}

\* C20: once initResouces has written the geometry, the buffer is exactly
\* vbuffSize + ibuffSize bytes, its offsets [0, vbuffSize) read back as the
\* bytes of the vertex array and [vbuffSize, vbuffSize + ibuffSize) as the
\* bytes of the index array; and no byte of the allocation beyond the buffer
\* is ever written.
C20_GeometryRoundTrip ==
    /\ \A k \in 1 .. Len(memory) : k > vbuffSize + ibuffSize => memory[k] = Stale
    /\ GeometryWritten =>
          /\ gpuBuffer.size = vbuffSize + ibuffSize
          /\ Len(memory) >= gpuBuffer.size
          /\ ReadBack(0, vbuffSize) = TrisGeomBytes
          /\ ReadBack(vbuffSize, vbuffSize + ibuffSize) = IndicesBytes

\* The frame loop runs over a buffer whose last two indices read 1 and 2 and
\* whose first vertex ends with the top byte of 1.0f.
C20_Witness ==
    /\ rpc = "done"
    /\ frame > 0
    /\ gpuBuffer.size = 84
    /\ memory[12] = 63
    /\ memory[77] = 1
    /\ memory[81] = 2
    /\ memory[85] = Stale


(* --------------------------- process properties ------------------------- *)

\* An initialization step has failed: a call of initVulkan or initResouces
\* has thrown, or initWindow has ended the process without a window.
InitializationFailed ==
    \/ error # "none"
    \/ process = "exited" /\ ~window

\* C21: whenever an initialization step has failed, the process has written
\* a failure message to the error stream and exited with the one non-zero
\* status of main's handler, and no step of the frame loop has been taken.
C21_InitFailureReported ==
    InitializationFailed =>
        /\ process = "exited"
        /\ cerr # ""
        /\ error # "none" => cerr = error
        /\ exitCode = -3
        /\ pc = "loop" /\ frame = 0 /\ steps = <<>>


\* Once the loop test has seen should-close, loop() has returned: no poll
\* and no draw() follows; a draw() starts only as the step after a poll.
LoopEnds ==
    /\ pc = "done" => pc' = "done" /\ frame' = frame /\ polls' = polls
    /\ pc = "loop" /\ shouldClose => pc' \in {"loop", "done"} /\ frame' = frame
    /\ frame' # frame => pc = "poll" /\ polls' = polls + 1

CanProceed ==
    CASE pc = "wait"    -> ENABLED DrawWait
      [] pc = "reset"   -> ENABLED DrawReset
      [] pc = "acquire" -> ENABLED DrawAcquire
      [] pc = "record"  -> ENABLED DrawRecord
      [] pc = "submit"  -> ENABLED DrawSubmit
      [] pc = "present" -> ENABLED DrawPresent
      [] pc = "advance" -> ENABLED DrawAdvance
      [] OTHER          -> TRUE

\* C23: the driving thread can be held up inside draw() only at the wait on
\* waitFences[currentFrame]; at every other statement, the acquire and the
\* present included, the call returns without waiting.
C23_OnlyFenceWaitBlocks == pc # "wait" => CanProceed

\* C23, as amended: the driving thread can be held up inside draw() only at
\* the wait on waitFences[currentFrame] and at the acquire; an acquire that
\* has returned an image has not waited for it to become available, the
\* signal of presentSemaphores[currentFrame] being pending or just given; the
\* present and every other statement return without waiting.
C23_BlocksAtWaitOrAcquire ==
    /\ pc \notin {"wait", "acquire"} => CanProceed
    /\ pc = "record" /\ res = "VK_SUCCESS" =>
          /\ presentSemaphores[currentFrame] \in {"pending", "signaled"}
          /\ imageOwner[imageIdx] = "app"

\* In the third draw() the acquire has returned an image whose availability
\* has not been signaled yet, while the two earlier frames are still queued
\* for presentation.
C23_Witness ==
    /\ frame = 3
    /\ pc = "record"
    /\ res = "VK_SUCCESS"
    /\ presentSemaphores[currentFrame] = "pending"
    /\ Len(presentQueue) = 2


(* ------------------- frame loop properties: liveness -------------------- *)

\* C24: every call of draw() eventually returns, its return being the
\* advance of currentFrame, and the first use of each slot finds its fence
\* signaled, so that it does not wait.
C24_EveryDrawReturns ==
    /\ [](pc = "wait" /\ frame <= MAX_SWAPCHAIN_FRAMES => waitFences[currentFrame])
    /\ (pc = "wait") ~> (pc = "loop")


(* ---------------- frame loop properties: failed acquire ----------------- *)

\* A submission is queued that will signal waitFences[f]: it is executing,
\* or the semaphore it waits on is signaled or about to be.
WillSignal(f) ==
    \E k \in 1 .. Len(graphicsQueue) :
        /\ graphicsQueue[k].fence = f
        /\ \/ graphicsQueue[k].state = "executing"
           \/ graphicsQueue[k].waitSemaphoreCount = 0
           \/ presentSemaphores[graphicsQueue[k].waitSemaphore] # "unsignaled"

\* C25: when the acquire of a draw() has failed, that draw() submits no
\* command buffer and queues no present request, and at its end
\* waitFences[currentFrame] is signaled or has a submission that will
\* signal it.
C25_NoWorkAfterFailedAcquire ==
    outOfDateReport.by = "acquire" =>
        /\ \A k \in 1 .. Len(graphicsQueue) :
              graphicsQueue[k].frame # outOfDateReport.frame
        /\ \A k \in 1 .. Len(presentQueue) :
              presentQueue[k].frame # outOfDateReport.frame
        /\ pc = "advance" /\ frame = outOfDateReport.frame =>
              waitFences[currentFrame] \/ WillSignal(currentFrame)


(* -------------- frame loop properties: semaphore discipline ------------- *)

\* A queued submission still has its wait on presentSemaphores[f] to make.
PendingWait(f) ==
    \E k \in 1 .. Len(graphicsQueue) :
        /\ graphicsQueue[k].state = "queued"
        /\ graphicsQueue[k].waitSemaphoreCount > 0
        /\ graphicsQueue[k].waitSemaphore = f

\* The step is vkAcquireNextImageKHR returning.
AcquireReturns == pc = "acquire" /\ pc' = "record"

\* The step is the completion of the oldest submission, which signals its
\* render-complete semaphore.
SubmissionCompletes ==
    /\ Len(graphicsQueue) > 0
    /\ graphicsQueue[1].state = "executing"
    /\ graphicsQueue' = Tail(graphicsQueue)

\* The step signals semaphore s of the collection sems, or starts its signal.
Signals(sems, s) == sems[s] = "unsignaled" /\ sems'[s] # "unsignaled"

\* What a step must respect: presentSemaphores[currentFrame] goes to an
\* acquire unsignaled and with no wait of an earlier submission pending; a
\* completing submission finds its render-complete semaphore unsignaled;
\* and a semaphore's state changes only from unsignaled to signaled (or to
\* a pending signal) and back by a wait.
SemaphoreStep ==
    /\ AcquireReturns =>
          /\ presentSemaphores[currentFrame] = "unsignaled"
          /\ ~PendingWait(currentFrame)
    /\ SubmissionCompletes /\ graphicsQueue[1].signalSemaphoreCount > 0 =>
          renderCompleteSemaphores[graphicsQueue[1].signalSemaphore] = "unsignaled"
    /\ \A f \in Slots :
          presentSemaphores'[f] # presentSemaphores[f] =>
              \/ Signals(presentSemaphores, f)
              \/ presentSemaphores[f] = "pending" /\ presentSemaphores'[f] = "signaled"
              \/ presentSemaphores[f] = "signaled" /\ presentSemaphores'[f] = "unsignaled"
    /\ \A i \in Images :
          renderCompleteSemaphores'[i] # renderCompleteSemaphores[i] =>
              \/ Signals(renderCompleteSemaphores, i)
              \/ renderCompleteSemaphores'[i] = "unsignaled"

\* C26: no step breaks the binary semaphore discipline, whichever images
\* the presentation engine hands out.
C26_SemaphoreDiscipline == [][SemaphoreStep]_vars

\* A render-complete semaphore is on its second round: image 0 has been
\* presented by an earlier frame, acquired again by the fourth and rendered,
\* and its semaphore is signaled once more for the fourth present.
C26_Witness ==
    /\ frame = 4
    /\ 4 \in completed
    /\ lastRead.image = 0
    /\ lastRead.frame \in 1 .. 3
    /\ TargetImage(commandBuffers[1]) = 0
    /\ renderCompleteSemaphores[0] = "signaled"
    /\ Len(presentQueue) = 1
    /\ presentQueue[1].frame = 4
    /\ presentQueue[1].image = 0


(* ---------------- frame loop properties: image layouts ------------------ *)

\* The n-th vkCmdPipelineBarrier of a list of recorded calls.
Transition(recorded, n) ==
    LET P == Positions(recorded, "vkCmdPipelineBarrier")
    IN  recorded[CHOOSE k \in P : Cardinality({j \in P : j <= k}) = n]

\* The vkCmdBeginRendering of a list of recorded calls.
RenderScope(recorded) ==
    recorded[TheOne(Positions(recorded, "vkCmdBeginRendering"))]

\* C27: in every recorded frame the layout the render scope declares for
\* its color attachment is the one the first transition leaves the image
\* in, the second transition starts from that layout and takes the targeted
\* image to PRESENT_SRC, and an image is read for presentation only after
\* the frame recorded for it has executed.
C27_LayoutsAgree ==
    /\ \A f \in Slots :
          commandBuffers[f] # <<>> =>
              LET r == commandBuffers[f]
              IN  /\ RenderScope(r).imageLayout = Transition(r, 1).newLayout
                  /\ Transition(r, 2).oldLayout = Transition(r, 1).newLayout
                  /\ Transition(r, 2).newLayout = "PRESENT_SRC"
                  /\ Transition(r, 2).image = RenderScope(r).imageView
                  /\ Transition(r, 1).image = RenderScope(r).imageView
    /\ lastRead.frame > 0 => lastRead.rendered


(* -------------------- frame effect of draw() ---------------------------- *)

\* The step is a statement of draw() executed by the driving thread.
DrawStep ==
    /\ pc \in {"wait", "reset", "acquire", "record", "submit", "present", "advance"}
    /\ pc' # pc

\* What a statement of draw() leaves alone: AppContext apart from
\* currentFrame (the swap chain handles, extent, format, images and image
\* views, the sizes of the sync-object collections, the queues), the
\* geometry buffer, and the command buffer, fence and acquire semaphore of
\* the other slots and the render-complete semaphores of the other images.
FrameEffect ==
    DrawStep =>
        /\ appCtx' = appCtx
        /\ gpuBuffer' = gpuBuffer
        /\ memory' = memory
        /\ rpc' = rpc
        /\ \A g \in Slots \ {currentFrame} :
              /\ commandBuffers'[g] = commandBuffers[g]
              /\ waitFences'[g] = waitFences[g]
              /\ presentSemaphores'[g] = presentSemaphores[g]
        /\ \A i \in Images \ {imageIdx} :
              renderCompleteSemaphores'[i] = renderCompleteSemaphores[i]
        /\ currentFrame' # currentFrame => pc = "advance"

\* C28: a call of draw() changes, of the host's state, only currentFrame,
\* the recording of commandBuffers[currentFrame] and the sync objects of the
\* slot and of the acquired image; the rest of AppContext and the geometry
\* buffer stay as initVulkan and initResouces left them.
C28_FrameEffect == [][FrameEffect]_vars

\* Two calls of draw() have returned: both command buffers are recorded,
\* and the buffer still reads as initResouces wrote it.
C28_Witness ==
    /\ frame = 2
    /\ pc = "loop"
    /\ currentFrame = 0
    /\ commandBuffers[0] # <<>>
    /\ commandBuffers[1] # <<>>
    /\ rpc = "done"
    /\ ReadBack(0, vbuffSize) = TrisGeomBytes
    /\ appCtx.swapchainHandle # VK_NULL_HANDLE
    /\ appCtx.renderCompleteSemaphores = NumImages

====
